---- MODULE Spec2Model ----
(***************************************************************************)
(* A model of beady (bdy), a terminal UI over the beads issue tracker.     *)
(*                                                                         *)
(*   - the change watcher (internal/app/watcher.go): the fsnotify loop     *)
(*     with its debounce timer, the poll loop, the single-slot             *)
(*     notification channel, waitForChange and close;                      *)
(*   - the list view (internal/views/list.go): SetData, the key handler,   *)
(*     the filter and the stable sort.                                     *)
(*                                                                         *)
(* Time is in milliseconds and advances in steps of Quantum.               *)
(***************************************************************************)
EXTENDS Bags, Integers, Sequences, FiniteSets, TLC

\* ------------------------------------------------------------------------
\* Program constants (watcher.go) and the bounds of the model
\* ------------------------------------------------------------------------
debounceDelay == 500

eventsCap == 1

Quantum == 250

MaxStamp == 2

DbFiles == {"beads.db", "beads.db-wal"}

DbFileOrder == <<"beads.db", "beads.db-wal">>

WalFile == "beads.db-wal"

Stamps == 1..MaxStamp

VARIABLES
    \* ---- the world the watcher observes
    present,        \* the data files that exist in .beads/
    mtime,          \* modification time of each data file (a clock reading in Stamps)
    pushQ,          \* the event waiting on watcher.Events (unbuffered): <<>> or <<ev>>
    \* ---- dbWatcher
    watcherClosed,  \* dw.watcher.Close() has run: subscription released
    events,         \* number of notifications buffered in dw.events
    done,           \* dw.done is closed
    closePc,        \* position inside close(): idle, signalled, returned
    \* ---- fsnotifyLoop
    fsPc,           \* run / exited
    timerSet,       \* timer != nil
    timerLeft,      \* time left until the debounce timer delivers on timer.C
    \* ---- pollLoop
    pollPc,         \* start / run / exited
    lastMod,        \* last-seen modification time
    tickReady,      \* ticker.C holds a tick
    \* ---- the consumer of waitForChange
    waiting,        \* a waitForChange command is blocked in its select
    inbox,          \* a fileChangedMsg has been returned and not yet handled
    \* ---- history (not program state; read only by the properties)
    notifyLog,      \* what the last step did with notify()
    sawEvt,         \* the fsnotify loop has received a qualifying event
    sinceEvt,       \* time since it received the last one (up to debounceDelay)
    burstMany,      \* the current burst holds more than one qualifying event
    burstNotifies,  \* debounce notifications since the current burst began
    undelivered,    \* "none", or what notify() did with the latest change
                    \* detected since the last message was delivered
    \* ---- history of the first change of the data files, kept while it is
    \*      the only one
    modCount,       \* changes of the data files so far: 0, 1, 2 for more
    modNotify,      \* what notify() did for each loop since that change
    msgCount        \* fileChangedMsg values returned since that change

wvars == <<present, mtime, pushQ, watcherClosed, events, done,
           closePc, fsPc, timerSet, timerLeft, pollPc, lastMod, tickReady,
           waiting, inbox, notifyLog, sawEvt, sinceEvt, burstMany,
           burstNotifies, undelivered, modCount, modNotify, msgCount>>

\* The list view's sort fields and status filters (iota constants).
SortByPriority == 0

SortByCreated == 1

SortByUpdated == 2

SortByStatus == 3

SortByType == 4

SortByID == 5

FilterAll == 0

FilterOpen == 1

FilterInProgress == 2

FilterBlocked == 3

FilterClosed == 4

FilterReady == 5

FilterDeferred == 6

FilterPinned == 7

VARIABLES
    allIssues,      \* the loaded snapshot
    readyIDs,       \* identifiers of the ready issues
    filtered,       \* the visible working set
    cursor,
    offset,
    height,
    sortField,
    sortReverse,
    statusFilter,
    hideClosed,
    filtering,      \* the filter input is active
    filterInput,    \* value of the text input
    filterText,
    prevUpdatedAt,  \* issue ID -> UpdatedAt from the last load
    flashIDs,
    \* ---- history (not program state; read only by the properties)
    textBefore,     \* the text filter when Filtering was last entered
    loaded          \* SetData has been called at least once

lvars == <<allIssues, readyIDs, filtered, cursor, offset, height, sortField,
           sortReverse, statusFilter, hideClosed, filtering, filterInput,
           filterText, prevUpdatedAt, flashIDs, textBefore, loaded>>

\* The detail view (DetailView struct).  Line indexes and cursors count from
\* 0 as in the source; nil is the absent issue or parent.
VARIABLES
    detailIssue,    \* DetailView.issue
    detailWidth,
    detailHeight,
    scroll,
    lines,          \* one tag per display line
    navItems,       \* sequence of [lineIndex, issueID]
    navCursor,      \* -1 = none selected
    sections,       \* kinds of the sections present, in display order
    sectionLines,   \* header line index of each present section
    sectionCursor,
    collapsed       \* sectionKind -> BOOLEAN

dvars == <<detailIssue, detailWidth, detailHeight, scroll, lines, navItems,
           navCursor, sections, sectionLines, sectionCursor, collapsed>>

\* The column layout engine (Table struct) and the width last resolved for.
VARIABLES
    Columns,
    Gap,
    totalWidth,     \* argument of the latest Resolve, -1 before the first
    row             \* what the latest RenderRow returned, NoRow before it

tvars == <<Columns, Gap, totalWidth, row>>

\* App (internal/app/app.go), with the size and the stats of the views it
\* owns that the view models above leave out.
VARIABLES
    viewMode,
    showHelp,
    err,            \* a.err: nil or the error of the failed load
    loading,
    detailStack,    \* the detail views under the active one, oldest first
    appWidth,       \* a.width
    appHeight,      \* a.height
    listWidth,      \* a.list.width
    helpWidth,      \* a.help.width
    helpHeight,     \* a.help.height
    stats,          \* a.list.stats
    pending,        \* the commands whose message has not been handled yet
    quit            \* tea.Quit was returned

avars == <<viewMode, showHelp, err, loading, detailStack, appWidth,
           appHeight, listWidth, helpWidth, helpHeight, stats, pending,
           quit>>

\* The latest call of a function of the ui and views packages that keeps no
\* state: its arguments and what it returned.
VARIABLES
    callText,
    callWidth,
    returned

fvars == <<callText, callWidth, returned>>

vars == <<wvars, lvars, dvars, tvars, avars, fvars>>

\* A nil *string and a nil *models.Issue.
nil == "<nil>"

nilIssue == [ID |-> nil]

sectionDescription == 0

sectionDesign == 1

sectionAcceptance == 2

sectionNotes == 3

sectionDeps == 4

sectionDependents == 5

sectionComments == 6

sectionCount == 7

\* No detail view is open: the fields of a view built for no issue.
NoDetailView ==
    /\ detailIssue = nilIssue
    /\ detailWidth = 0
    /\ detailHeight = 0
    /\ scroll = 0
    /\ lines = <<"(no issue data)">>
    /\ navItems = <<>>
    /\ navCursor = -1
    /\ sections = <<>>
    /\ sectionLines = <<>>
    /\ sectionCursor = 0
    /\ collapsed = [k \in 0..(sectionCount - 1) |-> FALSE]

\* No table has been laid out.
\* No row rendered.
NoRow == <<"(none)">>

NoTable ==
    /\ Columns = <<>>
    /\ Gap = 1
    /\ totalWidth = -1
    /\ row = NoRow

ViewList == 0

ViewDetail == 1

\* No call made.
NoCall ==
    /\ callText = <<>>
    /\ callWidth = 0
    /\ returned = <<>>

\* The application is not running.
NoApp ==
    /\ viewMode = ViewList
    /\ showHelp = FALSE
    /\ err = nil
    /\ loading = FALSE
    /\ detailStack = <<>>
    /\ appWidth = 0
    /\ appHeight = 0
    /\ listWidth = 0
    /\ helpWidth = 0
    /\ helpHeight = 0
    /\ stats = nil
    /\ pending = EmptyBag
    /\ quit = FALSE


\* NewListView
NewListView ==
    /\ allIssues = <<>>
    /\ readyIDs = {}
    /\ filtered = <<>>
    /\ cursor = 0
    /\ offset = 0
    /\ height = 0
    /\ sortField = SortByPriority
    /\ sortReverse = FALSE
    /\ statusFilter = FilterAll
    /\ hideClosed = TRUE
    /\ filtering = FALSE
    /\ filterInput = <<>>
    /\ filterText = <<>>
    /\ prevUpdatedAt = <<>>
    /\ flashIDs = {}
    /\ textBefore = <<>>
    /\ loaded = FALSE



\* ------------------------------------------------------------------------
\* dbWatcher: pure helpers
\* ------------------------------------------------------------------------

\* time.Time's zero value, which every real modification time is After.
zeroTime == 0

Max2(a, b) == IF a > b THEN a ELSE b

Min2(a, b) == IF a < b THEN a ELSE b

RECURSIVE latestFrom(_, _)
latestFrom(i, latest) ==
    IF i > Len(DbFileOrder) THEN latest
    ELSE LET name == DbFileOrder[i]
         IN  IF name \in present /\ mtime[name] > latest
             THEN latestFrom(i + 1, mtime[name])
             ELSE latestFrom(i + 1, latest)

\* dbModTime: the latest modification time across the files that can be
\* stat'd, the zero time if neither can.
dbModTime == latestFrom(1, zeroTime)

\* A filter on the operation alone.
qualifiesAnyName(ev) == ev.op \in {"Write", "Create"}

\* The event filter of fsnotifyLoop: a write or a create, on a data file.
qualifies(ev) ==
    /\ ev.op \in {"Write", "Create"}
    /\ ev.name \in DbFiles

\* notify: a non-blocking send on dw.events; the value is dropped when the
\* buffer is full.  who is "fs" or "poll".
notifyUnbounded(who) ==
    /\ events' = events + 1
    /\ notifyLog' = <<who, "sent">>
    /\ undelivered' = "sent"
    /\ modNotify' = IF modCount <= 1 THEN [modNotify EXCEPT ![who] = "sent"] ELSE modNotify
    /\ UNCHANGED <<modCount, msgCount>>

notify(who) ==
    /\ events' = IF events < eventsCap THEN events + 1 ELSE events
    /\ notifyLog' = <<who, IF events < eventsCap THEN "sent" ELSE "dropped">>
    /\ undelivered' = IF events < eventsCap THEN "sent" ELSE "dropped"
    /\ modNotify' = IF modCount <= 1
                    THEN [modNotify EXCEPT
                              ![who] = IF events < eventsCap THEN "sent" ELSE "dropped"]
                    ELSE modNotify
    /\ UNCHANGED <<modCount, msgCount>>

noNotify ==
    /\ notifyLog' = <<"none", "none">>
    /\ UNCHANGED <<events, undelivered, modCount, modNotify, msgCount>>

noModNotify == [fs |-> "none", poll |-> "none"]

\* A writer has changed the data files; notify() is not called.  The
\* history of the first change ends with the second.
modified ==
    /\ notifyLog' = <<"none", "none">>
    /\ UNCHANGED <<events, undelivered>>
    /\ modCount' = Min2(2, modCount + 1)
    /\ modNotify' = IF modCount = 1 THEN noModNotify ELSE modNotify
    /\ msgCount' = IF modCount = 1 THEN 0 ELSE msgCount

\* ------------------------------------------------------------------------
\* The environment: time, and the writers of the data files
\* ------------------------------------------------------------------------

\* The OS hands an event to the subscription, or the event is missed
\* (seen = FALSE, an event still waiting, a released subscription).
emit(ev, seen) ==
    pushQ' = IF seen /\ ~watcherClosed /\ pushQ = <<>>
             THEN <<ev>> ELSE pushQ

\* Quantum ms pass: a running debounce timer comes closer to firing.
Tick ==
    /\ \/ timerSet /\ timerLeft > 0
       \/ sinceEvt < debounceDelay
    /\ timerLeft' = IF timerSet THEN Max2(0, timerLeft - Quantum) ELSE timerLeft
    /\ sinceEvt' = Min2(debounceDelay, sinceEvt + Quantum)
    /\ noNotify
    /\ UNCHANGED <<present, mtime, pushQ, watcherClosed, done,
                   closePc, fsPc, timerSet, pollPc, lastMod, tickReady,
                   waiting, inbox, sawEvt, burstNotifies, burstMany>>
    /\ UNCHANGED <<lvars, dvars, tvars, avars, fvars>>

\* A writer changes a data file.  Its modification time becomes the reading
\* t of the writer's clock, which need not differ from the time before (a
\* coarse clock) nor be later (a file restored with its old time).
WriteFile(f, t, seen) ==
    /\ f \in present
    /\ mtime' = [mtime EXCEPT ![f] = t]
    /\ emit([op |-> "Write", name |-> f], seen)
    /\ modified
    /\ UNCHANGED <<present, watcherClosed, done, closePc, fsPc,
                   timerSet, timerLeft, pollPc, lastMod, tickReady, waiting,
                   inbox, sawEvt, sinceEvt, burstNotifies, burstMany>>
    /\ UNCHANGED <<lvars, dvars, tvars, avars, fvars>>

\* A checkpoint removes the WAL; the next transaction creates it again.
CreateFile(f, t, seen) ==
    /\ f = WalFile
    /\ f \notin present
    /\ present' = present \cup {f}
    /\ mtime' = [mtime EXCEPT ![f] = t]
    /\ emit([op |-> "Create", name |-> f], seen)
    /\ modified
    /\ UNCHANGED <<watcherClosed, done, closePc, fsPc,
                   timerSet, timerLeft, pollPc, lastMod, tickReady, waiting,
                   inbox, sawEvt, sinceEvt, burstNotifies, burstMany>>
    /\ UNCHANGED <<lvars, dvars, tvars, avars, fvars>>

RemoveFile(f, seen) ==
    /\ f = WalFile
    /\ f \in present
    /\ present' = present \ {f}
    /\ mtime' = [mtime EXCEPT ![f] = zeroTime]
    /\ emit([op |-> "Remove", name |-> f], seen)
    /\ modified
    /\ UNCHANGED <<watcherClosed, done, closePc, fsPc,
                   timerSet, timerLeft, pollPc, lastMod, tickReady, waiting,
                   inbox, sawEvt, sinceEvt, burstNotifies, burstMany>>
    /\ UNCHANGED <<lvars, dvars, tvars, avars, fvars>>

\* Some other file of the (watched) directory is touched.
OtherFile ==
    /\ ~watcherClosed
    /\ pushQ = <<>>
    /\ pushQ' = <<[op |-> "Write", name |-> "other"]>>
    /\ noNotify
    /\ UNCHANGED <<present, mtime, watcherClosed, done, closePc,
                   fsPc, timerSet, timerLeft, pollPc, lastMod, tickReady,
                   waiting, inbox, sawEvt, sinceEvt, burstNotifies, burstMany>>
    /\ UNCHANGED <<lvars, dvars, tvars, avars, fvars>>

\* ------------------------------------------------------------------------
\* fsnotifyLoop
\* ------------------------------------------------------------------------

\* The debounce timer after a qualifying event: started if there is none,
\* otherwise stopped, drained and reset.  Either way it fires debounceDelay
\* from now.
resetTimerKeep(set, left) == IF set THEN left ELSE debounceDelay

resetTimer(set, left) == debounceDelay

\* case event, ok := <-dw.watcher.Events (ok).  The watcher.Add of a created
\* file changes no event the loop receives: the directory stays watched.
FsEvent ==
    /\ fsPc = "run"
    /\ ~watcherClosed
    /\ pushQ # <<>>
    /\ LET ev == Head(pushQ)
       IN  /\ pushQ' = Tail(pushQ)
           /\ IF qualifies(ev)
              THEN /\ timerSet' = TRUE
                   /\ timerLeft' = resetTimer(timerSet, timerLeft)
                   /\ sawEvt' = TRUE
                   /\ sinceEvt' = 0
                   /\ IF sawEvt /\ sinceEvt < debounceDelay
                      THEN /\ burstMany' = TRUE
                           /\ burstNotifies' = burstNotifies
                      ELSE /\ burstMany' = FALSE
                           /\ burstNotifies' = 0
              ELSE UNCHANGED <<timerSet, timerLeft, sawEvt, sinceEvt,
                               burstNotifies, burstMany>>
    /\ noNotify
    /\ UNCHANGED <<present, mtime, watcherClosed, done, closePc,
                   fsPc, pollPc, lastMod, tickReady, waiting, inbox>>
    /\ UNCHANGED <<lvars, dvars, tvars, avars, fvars>>

\* case <-timerC
FsTimer ==
    /\ fsPc = "run"
    /\ timerSet
    /\ timerLeft = 0
    /\ timerSet' = FALSE
    /\ notify("fs")
    /\ burstNotifies' = burstNotifies + 1
    /\ UNCHANGED <<present, mtime, pushQ, watcherClosed, done,
                   closePc, fsPc, timerLeft, pollPc, lastMod, tickReady,
                   waiting, inbox, sawEvt, sinceEvt, burstMany>>
    /\ UNCHANGED <<lvars, dvars, tvars, avars, fvars>>

\* case _, ok := <-dw.watcher.Errors (ok): ignored
FsError ==
    /\ fsPc = "run"
    /\ ~watcherClosed
    /\ noNotify
    /\ UNCHANGED <<present, mtime, pushQ, watcherClosed, done,
                   closePc, fsPc, timerSet, timerLeft, pollPc, lastMod,
                   tickReady, waiting, inbox, sawEvt, sinceEvt,
                   burstNotifies, burstMany>>
    /\ UNCHANGED <<lvars, dvars, tvars, avars, fvars>>

\* case <-dw.done: stop the timer and return
FsExitDone ==
    /\ fsPc = "run"
    /\ done
    /\ fsPc' = "exited"
    /\ timerSet' = FALSE
    /\ timerLeft' = 0
    /\ noNotify
    /\ UNCHANGED <<present, mtime, pushQ, watcherClosed, done,
                   closePc, pollPc, lastMod, tickReady, waiting, inbox,
                   sawEvt, sinceEvt, burstNotifies, burstMany>>
    /\ UNCHANGED <<lvars, dvars, tvars, avars, fvars>>

\* Events or Errors is closed (!ok): return
FsExitClosed ==
    /\ fsPc = "run"
    /\ watcherClosed
    /\ fsPc' = "exited"
    /\ noNotify
    /\ UNCHANGED <<present, mtime, pushQ, watcherClosed, done,
                   closePc, timerSet, timerLeft, pollPc, lastMod, tickReady,
                   waiting, inbox, sawEvt, sinceEvt, burstNotifies, burstMany>>
    /\ UNCHANGED <<lvars, dvars, tvars, avars, fvars>>

\* ------------------------------------------------------------------------
\* pollLoop
\* ------------------------------------------------------------------------

\* lastMod := dw.dbModTime(); ticker := time.NewTicker(pollInterval)
PollStart ==
    /\ pollPc = "start"
    /\ pollPc' = "run"
    /\ lastMod' = dbModTime
    /\ noNotify
    /\ UNCHANGED <<present, mtime, pushQ, watcherClosed, done,
                   closePc, fsPc, timerSet, timerLeft, tickReady, waiting,
                   inbox, sawEvt, sinceEvt, burstNotifies, burstMany>>
    /\ UNCHANGED <<lvars, dvars, tvars, avars, fvars>>

\* The ticker delivers a tick on ticker.C (a buffer of one; a tick that
\* finds it full is dropped).  The period is left open.
TickerFire ==
    /\ pollPc = "run"
    /\ ~tickReady
    /\ tickReady' = TRUE
    /\ noNotify
    /\ UNCHANGED <<present, mtime, pushQ, watcherClosed, done,
                   closePc, fsPc, timerSet, timerLeft, pollPc, lastMod,
                   waiting, inbox, sawEvt, sinceEvt, burstNotifies, burstMany>>
    /\ UNCHANGED <<lvars, dvars, tvars, avars, fvars>>

modChangedAfter(mod, last) == mod > last

modChangedAlways(mod, last) == TRUE

modChanged(mod, last) == mod # last

\* case <-ticker.C
PollTick ==
    /\ pollPc = "run"
    /\ tickReady
    /\ tickReady' = FALSE
    /\ LET mod == dbModTime
       IN  IF modChanged(mod, lastMod)
           THEN /\ lastMod' = mod
                /\ notify("poll")
           ELSE /\ lastMod' = lastMod
                /\ noNotify
    /\ UNCHANGED <<present, mtime, pushQ, watcherClosed, done,
                   closePc, fsPc, timerSet, timerLeft, pollPc, waiting, inbox,
                   sawEvt, sinceEvt, burstNotifies, burstMany>>
    /\ UNCHANGED <<lvars, dvars, tvars, avars, fvars>>

\* case <-dw.done; the deferred ticker.Stop()
PollExit ==
    /\ pollPc = "run"
    /\ done
    /\ pollPc' = "exited"
    /\ tickReady' = FALSE
    /\ noNotify
    /\ UNCHANGED <<present, mtime, pushQ, watcherClosed, done,
                   closePc, fsPc, timerSet, timerLeft, lastMod, waiting,
                   inbox, sawEvt, sinceEvt, burstNotifies, burstMany>>
    /\ UNCHANGED <<lvars, dvars, tvars, avars, fvars>>

\* ------------------------------------------------------------------------
\* close
\* ------------------------------------------------------------------------

closeDoneSkipped == done' = done

\* close(dw.done)
closeDone == done' = TRUE

\* dw == nil: newDBWatcher returned no watcher and started no goroutine.
dwNil == fsPc = "none" /\ pollPc = "none"

CloseSignal ==
    /\ ~dwNil
    /\ closePc = "idle"
    /\ closePc' = "signalled"
    /\ closeDone
    /\ noNotify
    /\ UNCHANGED <<present, mtime, pushQ, watcherClosed, fsPc,
                   timerSet, timerLeft, pollPc, lastMod, tickReady, waiting,
                   inbox, sawEvt, sinceEvt, burstNotifies, burstMany>>
    /\ UNCHANGED <<lvars, dvars, tvars, avars, fvars>>

\* dw.watcher.Close(), after which close returns
CloseWatcher ==
    /\ closePc = "signalled"
    /\ closePc' = "returned"
    /\ watcherClosed' = TRUE
    /\ pushQ' = <<>>
    /\ noNotify
    /\ UNCHANGED <<present, mtime, done, fsPc, timerSet, timerLeft,
                   pollPc, lastMod, tickReady, waiting, inbox, sawEvt,
                   sinceEvt, burstNotifies, burstMany>>
    /\ UNCHANGED <<lvars, dvars, tvars, avars, fvars>>

\* ------------------------------------------------------------------------
\* waitForChange and its consumer
\* ------------------------------------------------------------------------

waitReceiveLost ==
    /\ events' = events - 1
    /\ inbox' = inbox
    /\ undelivered' = undelivered
    /\ notifyLog' = <<"none", "none">>
    /\ UNCHANGED <<modCount, modNotify, msgCount>>

\* case <-dw.events: return fileChangedMsg{}
waitReceive ==
    /\ events' = events - 1
    /\ inbox' = TRUE
    /\ undelivered' = "none"
    /\ notifyLog' = <<"deliver", undelivered>>
    /\ msgCount' = IF modCount <= 1 THEN Min2(3, msgCount + 1) ELSE msgCount
    /\ UNCHANGED <<modCount, modNotify>>

WaitDeliver ==
    /\ waiting
    /\ events > 0
    /\ waiting' = FALSE
    /\ waitReceive
    /\ UNCHANGED <<present, mtime, pushQ, watcherClosed, done,
                   closePc, fsPc, timerSet, timerLeft, pollPc, lastMod,
                   tickReady, sawEvt, sinceEvt, burstNotifies, burstMany>>
    /\ UNCHANGED <<lvars, dvars, tvars, avars, fvars>>

\* A select without the done case.
WaitDoneMissing == FALSE /\ UNCHANGED vars

\* case <-dw.done: return nil
WaitDone ==
    /\ waiting
    /\ done
    /\ waiting' = FALSE
    /\ noNotify
    /\ UNCHANGED <<present, mtime, pushQ, watcherClosed, done,
                   closePc, fsPc, timerSet, timerLeft, pollPc, lastMod,
                   tickReady, inbox, sawEvt, sinceEvt, burstNotifies, burstMany>>
    /\ UNCHANGED <<lvars, dvars, tvars, avars, fvars>>

\* The consumer handles the fileChangedMsg and calls waitForChange again.
ConsumerRearm ==
    /\ inbox
    /\ ~waiting
    /\ inbox' = FALSE
    /\ waiting' = TRUE
    /\ noNotify
    /\ UNCHANGED <<present, mtime, pushQ, watcherClosed, done,
                   closePc, fsPc, timerSet, timerLeft, pollPc, lastMod,
                   tickReady, sawEvt, sinceEvt, burstNotifies, burstMany>>
    /\ UNCHANGED <<lvars, dvars, tvars, avars, fvars>>

\* ------------------------------------------------------------------------
\* The watcher's specification
\* ------------------------------------------------------------------------

\* newDBWatcher has returned a live watcher: .beads/ exists, the directory
\* and the data files that exist are watched, both goroutines are started.
newDBWatcher ==
    /\ present \in {DbFiles \ {WalFile}, DbFiles}
    /\ mtime = [f \in DbFiles |-> IF f \in present THEN 1 ELSE zeroTime]
    /\ pushQ = <<>>
    /\ watcherClosed = FALSE
    /\ events = 0
    /\ done = FALSE
    /\ closePc = "idle"
    /\ fsPc = "run"
    /\ timerSet = FALSE
    /\ timerLeft = 0
    /\ pollPc = "start"
    /\ lastMod = zeroTime
    /\ tickReady = FALSE
    /\ waiting = TRUE
    /\ inbox = FALSE
    /\ notifyLog = <<"none", "none">>
    /\ sawEvt = FALSE
    /\ sinceEvt = debounceDelay
    /\ burstMany = FALSE
    /\ burstNotifies = 0
    /\ undelivered = "none"

\* No history of a first change is kept.
firstChangeOver ==
    /\ modCount = 2
    /\ modNotify = noModNotify
    /\ msgCount = 0

\* The data files have not changed since the watcher was made.
firstChangeAhead ==
    /\ modCount = 0
    /\ modNotify = noModNotify
    /\ msgCount = 0

WatcherNext ==
    \/ Tick
    \/ \E f \in DbFiles, t \in Stamps, seen \in BOOLEAN : WriteFile(f, t, seen)
    \/ \E f \in DbFiles, t \in Stamps, seen \in BOOLEAN : CreateFile(f, t, seen)
    \/ \E f \in DbFiles, seen \in BOOLEAN : RemoveFile(f, seen)
    \/ OtherFile
    \/ FsEvent
    \/ FsTimer
    \/ FsError
    \/ FsExitDone
    \/ FsExitClosed
    \/ PollStart
    \/ TickerFire
    \/ PollTick
    \/ PollExit
    \/ CloseSignal
    \/ CloseWatcher
    \/ WaitDeliver
    \/ WaitDone
    \/ ConsumerRearm

WatcherInit ==
    newDBWatcher /\ firstChangeOver /\ NewListView /\ NoDetailView /\ NoTable /\ NoApp /\ NoCall

WatcherSpec == WatcherInit /\ [][WatcherNext]_vars

\* Every goroutine that can take a step of its own eventually takes it: the
\* two loops and the waitForChange command are scheduled, and the consumer
\* handles the messages it is sent.
WatcherFairSpec ==
    /\ WatcherSpec
    /\ WF_vars(PollStart)
    /\ WF_vars(PollExit)
    /\ WF_vars(FsExitDone)
    /\ WF_vars(WaitDeliver)
    /\ WF_vars(ConsumerRearm)

\* The watcher with only the delivery side scheduled: the goroutine of the
\* command returned by waitForChange, and the consumer that re-arms.
DeliveryFairSpec == WatcherSpec /\ WF_vars(WaitDeliver) /\ WF_vars(ConsumerRearm)

\* ------------------------------------------------------------------------
\* Properties of the watcher
\* ------------------------------------------------------------------------

\* C1: the notification channel never holds more than one notification; a
\* notify() that finds one pending is dropped and leaves it pending; and
\* notify() never blocks: whenever a loop's timer or tick case is ready, the
\* loop can take it whatever the channel holds.
NotifySingleSlot ==
    /\ events \in 0..eventsCap
    /\ notifyLog[1] \in {"fs", "poll"} => events = eventsCap
    /\ (fsPc = "run" /\ timerSet /\ timerLeft = 0) => ENABLED FsTimer
    /\ (pollPc = "run" /\ tickReady) => ENABLED PollTick

NotifyDroppedSeen == notifyLog[1] \in {"fs", "poll"} /\ notifyLog[2] = "dropped"

NoChangeLost ==
    /\ [](undelivered # "none" => events > 0)
    /\ (undelivered # "none") ~> (undelivered = "none" \/ done)

DroppedChangeDelivered == notifyLog = <<"deliver", "dropped">>

PollTickStep ==
    pollPc = "run" /\ tickReady /\ ~tickReady' /\ pollPc' = "run"

PollDetects ==
    [][PollTickStep =>
          IF dbModTime # lastMod
          THEN /\ notifyLog'[1] = "poll"
               /\ events' >= 1
               /\ lastMod' = dbModTime
          ELSE /\ notifyLog'[1] = "none"
               /\ events' = events
               /\ lastMod' = lastMod]_vars

PollNotifiedWithoutPush ==
    /\ notifyLog = <<"poll", "sent">>
    /\ ~sawEvt
    /\ pushQ = <<>>
    /\ lastMod = dbModTime

\* ------------------------------------------------------------------------
\* List view (internal/views/list.go)
\* ------------------------------------------------------------------------
\* Strings are sequences of character codes, so that ToLower, Contains and
\* Compare are computed as the strings package computes them.

MaxText == 1

MaxPriority == 2

strA == <<97>>

strB == <<98>>

strC == <<99>>

strEpic == <<101, 112, 105, 99>>

strChore == <<99, 104, 111, 114, 101>>

\* The rune the user types into the filter input: "A".
TypeKeys == {65}

toLowerRune(c) == IF c >= 65 /\ c <= 90 THEN c + 32 ELSE c

ToLower(str) == [i \in 1..Len(str) |-> toLowerRune(str[i])]

Contains(str, sub) ==
    \E i \in 0..(Len(str) - Len(sub)) : SubSeq(str, i + 1, i + Len(sub)) = sub

RECURSIVE compareFrom(_, _, _)
compareFrom(a, b, i) ==
    IF i > Len(a) /\ i > Len(b) THEN 0
    ELSE IF i > Len(a) THEN -1
    ELSE IF i > Len(b) THEN 1
    ELSE IF a[i] < b[i] THEN -1
    ELSE IF a[i] > b[i] THEN 1
    ELSE compareFrom(a, b, i + 1)

\* strings.Compare
Compare(a, b) == compareFrom(a, b, 1)

mkIssue(id, title, type, labels, status, pinned, priority, created, updated) ==
    [ID |-> id, Title |-> title, IssueType |-> type, Assignee |-> <<>>,
     Labels |-> labels, Status |-> status, Pinned |-> pinned,
     Priority |-> priority, CreatedAt |-> created, UpdatedAt |-> updated]

\* ---- filter ------------------------------------------------------------

hidesClosedNever(hc, sf, issue) == FALSE

\* Hide closed by default unless toggled or explicitly filtering for closed.
hidesClosed(hc, sf, issue) ==
    hc /\ sf # FilterClosed /\ issue.Status = "closed"

matchesStatusFilter(sf, ready, issue) ==
    CASE sf = FilterAll -> TRUE
      [] sf = FilterOpen -> issue.Status = "open"
      [] sf = FilterInProgress -> issue.Status = "in_progress"
      [] sf = FilterBlocked -> issue.Status = "blocked"
      [] sf = FilterClosed -> issue.Status = "closed"
      [] sf = FilterReady -> issue.ID \in ready
      [] sf = FilterDeferred -> issue.Status = "deferred"
      [] sf = FilterPinned -> issue.Pinned
      [] OTHER -> TRUE

matchesTextFilter(text, issue) ==
    IF text = <<>> THEN TRUE
    ELSE LET needle == ToLower(text)
         IN  \/ Contains(ToLower(issue.ID), needle)
             \/ Contains(ToLower(issue.Title), needle)
             \/ Contains(ToLower(issue.IssueType), needle)
             \/ Contains(ToLower(issue.Assignee), needle)
             \/ \E i \in 1..Len(issue.Labels) :
                    Contains(ToLower(issue.Labels[i]), needle)

keepIssue(hc, sf, ready, text, issue) ==
    /\ ~hidesClosed(hc, sf, issue)
    /\ matchesStatusFilter(sf, ready, issue)
    /\ matchesTextFilter(text, issue)

RECURSIVE filterFrom(_, _, _, _, _, _)
filterFrom(issues, i, hc, sf, ready, text) ==
    IF i > Len(issues) THEN <<>>
    ELSE (IF keepIssue(hc, sf, ready, text, issues[i])
          THEN <<issues[i]>> ELSE <<>>)
         \o filterFrom(issues, i + 1, hc, sf, ready, text)

\* ---- sort --------------------------------------------------------------

statusOrder(st) ==
    CASE st = "in_progress" -> 0
      [] st = "open" -> 1
      [] st = "blocked" -> 2
      [] st = "deferred" -> 3
      [] st = "pinned" -> 4
      [] st = "closed" -> 5
      [] OTHER -> 6

compareFieldByCreated(field, a, b) ==
    IF a.CreatedAt > b.CreatedAt THEN -1 ELSE 1

compareField(field, a, b) ==
    CASE field = SortByPriority ->
             IF a.Priority # b.Priority THEN a.Priority - b.Priority
             ELSE IF a.CreatedAt > b.CreatedAt THEN -1
             ELSE 1
      [] field = SortByCreated ->
             IF a.CreatedAt > b.CreatedAt THEN -1
             ELSE IF a.CreatedAt < b.CreatedAt THEN 1
             ELSE 0
      [] field = SortByUpdated ->
             IF a.UpdatedAt > b.UpdatedAt THEN -1
             ELSE IF a.UpdatedAt < b.UpdatedAt THEN 1
             ELSE 0
      [] field = SortByStatus -> statusOrder(a.Status) - statusOrder(b.Status)
      [] field = SortByType -> Compare(a.IssueType, b.IssueType)
      [] field = SortByID -> Compare(a.ID, b.ID)
      [] OTHER -> 0

compareIssues(field, a, b) ==
    IF a.Pinned # b.Pinned
    THEN (IF a.Pinned THEN -1 ELSE 1)
    ELSE compareField(field, a, b)

lessForward(field, rev, a, b) == compareIssues(field, a, b) < 0

\* The less function handed to sort.SliceStable.
less(field, rev, a, b) ==
    LET cmp == compareIssues(field, a, b)
    IN  IF rev THEN cmp > 0 ELSE cmp < 0

swap(seq, i, j) == [seq EXCEPT ![i] = seq[j], ![j] = seq[i]]

RECURSIVE sinkLeft(_, _, _, _)
sinkLeft(seq, j, field, rev) ==
    IF j > 1 /\ less(field, rev, seq[j], seq[j - 1])
    THEN sinkLeft(swap(seq, j, j - 1), j - 1, field, rev)
    ELSE seq

RECURSIVE insertionSort(_, _, _, _)
insertionSort(seq, i, field, rev) ==
    IF i > Len(seq) THEN seq
    ELSE insertionSort(sinkLeft(seq, i, field, rev), i + 1, field, rev)

\* sort.SliceStable on fewer than 20 elements (one block) is an insertion
\* sort driven by less.
sliceStable(seq, field, rev) == insertionSort(seq, 2, field, rev)

applyFilterAndSort(issues, hc, sf, ready, text, field, rev) ==
    sliceStable(filterFrom(issues, 1, hc, sf, ready, text), field, rev)

\* ---- geometry ----------------------------------------------------------

\* The header and the status bar are taken to render on one line each
\* (which they do when width <= 0, and whenever they do not wrap).
visibleRows ==
    LET overhead == 1 + 2 + 1 + (IF filtering THEN 1 ELSE 0)
    IN  Max2(1, height - overhead)

ensureVisible(cur, off) ==
    LET o1 == IF cur < off THEN cur ELSE off
    IN  IF cur >= o1 + visibleRows THEN cur - visibleRows + 1 ELSE o1

\* ---- operations --------------------------------------------------------

idsOf(issues) == {issues[i].ID : i \in 1..Len(issues)}

lastWithID(issues, id) ==
    issues[CHOOSE i \in 1..Len(issues) :
               /\ issues[i].ID = id
               /\ \A j \in (i + 1)..Len(issues) : issues[j].ID # id]

refilter ==
    filtered' = applyFilterAndSort(allIssues', hideClosed', statusFilter',
                                   readyIDs', filterText', sortField',
                                   sortReverse')

\* History: the text filter that was in force when Filtering was entered
\* (while Browsing, the current one).
history ==
    textBefore' = IF filtering /\ filtering' THEN textBefore ELSE filterText'

\* SetData(issues, readyIssues, stats): what it does to the list
setData(issues, ready) ==
    /\ flashIDs' =
           IF DOMAIN prevUpdatedAt # {}
           THEN flashIDs \cup
                {issues[i].ID : i \in
                    {k \in 1..Len(issues) :
                        \/ issues[k].ID \notin DOMAIN prevUpdatedAt
                        \/ issues[k].UpdatedAt # prevUpdatedAt[issues[k].ID]}}
           ELSE flashIDs
    /\ prevUpdatedAt' =
           [id \in idsOf(issues) |-> lastWithID(issues, id).UpdatedAt]
    /\ allIssues' = issues
    /\ readyIDs' = idsOf(ready)
    /\ UNCHANGED <<hideClosed, statusFilter, filterText, sortField,
                   sortReverse>>
    /\ refilter
    /\ cursor' = IF cursor >= Len(filtered')
                 THEN Max2(0, Len(filtered') - 1) ELSE cursor
    /\ UNCHANGED <<offset, height, filtering, filterInput>>
    /\ history
    /\ loaded' = TRUE

\* SetData(issues, readyIssues, stats)
SetData(issues, ready) ==
    /\ setData(issues, ready)
    /\ UNCHANGED <<wvars, dvars, tvars, avars, fvars>>

\* SetSize(w, h): what it does to the list
setSize(h) ==
    /\ height' = h
    /\ UNCHANGED <<allIssues, readyIDs, filtered, cursor, offset, sortField,
                   sortReverse, statusFilter, hideClosed, filtering,
                   filterInput, filterText, prevUpdatedAt, flashIDs>>
    /\ history
    /\ UNCHANGED loaded

\* SetSize(w, h)
SetSize(h) ==
    /\ setSize(h)
    /\ UNCHANGED <<wvars, dvars, tvars, avars, fvars>>

\* Update, Browsing: the cursor keys
KeyCursor(key) ==
    /\ ~filtering
    /\ key \in {"j", "k", "g", "G", "ctrl+d", "ctrl+u"}
    /\ LET n == Len(filtered)
           page == visibleRows \div 2
       IN  CASE key = "j" ->
                    IF cursor < n - 1
                    THEN /\ cursor' = cursor + 1
                         /\ offset' = ensureVisible(cursor + 1, offset)
                    ELSE UNCHANGED <<cursor, offset>>
             [] key = "k" ->
                    IF cursor > 0
                    THEN /\ cursor' = cursor - 1
                         /\ offset' = ensureVisible(cursor - 1, offset)
                    ELSE UNCHANGED <<cursor, offset>>
             [] key = "g" -> cursor' = 0 /\ offset' = 0
             [] key = "G" ->
                    /\ cursor' = Max2(0, n - 1)
                    /\ offset' = ensureVisible(Max2(0, n - 1), offset)
             [] key = "ctrl+d" ->
                    /\ cursor' = Min2(cursor + page, Max2(0, n - 1))
                    /\ offset' = ensureVisible(cursor', offset)
             [] key = "ctrl+u" ->
                    /\ cursor' = Max2(cursor - page, 0)
                    /\ offset' = ensureVisible(cursor', offset)
    /\ UNCHANGED <<allIssues, readyIDs, filtered, height, sortField,
                   sortReverse, statusFilter, hideClosed, filtering,
                   filterInput, filterText, prevUpdatedAt, flashIDs>>
    /\ history
    /\ UNCHANGED loaded
    /\ UNCHANGED <<wvars, dvars, tvars, avars, fvars>>

\* Update, Browsing: "s"
KeySortCycle ==
    /\ ~filtering
    /\ sortField' = (sortField + 1) % 6
    /\ UNCHANGED <<allIssues, readyIDs, hideClosed, statusFilter, filterText,
                   sortReverse>>
    /\ refilter
    /\ UNCHANGED <<cursor, offset, height, filtering, filterInput,
                   prevUpdatedAt, flashIDs>>
    /\ history
    /\ UNCHANGED loaded
    /\ UNCHANGED <<wvars, dvars, tvars, avars, fvars>>

\* Update, Browsing: "S"
KeySortReverse ==
    /\ ~filtering
    /\ sortReverse' = ~sortReverse
    /\ UNCHANGED <<allIssues, readyIDs, hideClosed, statusFilter, filterText,
                   sortField>>
    /\ refilter
    /\ UNCHANGED <<cursor, offset, height, filtering, filterInput,
                   prevUpdatedAt, flashIDs>>
    /\ history
    /\ UNCHANGED loaded
    /\ UNCHANGED <<wvars, dvars, tvars, avars, fvars>>

toggleStatusFilterSet(cur, f) == f

toggleStatusFilter(cur, f) == IF cur = f THEN FilterAll ELSE f

\* Update, Browsing: "1" .. "7"
KeyStatus(f) ==
    /\ ~filtering
    /\ f \in FilterOpen..FilterPinned
    /\ statusFilter' = toggleStatusFilter(statusFilter, f)
    /\ UNCHANGED <<allIssues, readyIDs, hideClosed, filterText, sortField,
                   sortReverse>>
    /\ refilter
    /\ UNCHANGED <<cursor, offset, height, filtering, filterInput,
                   prevUpdatedAt, flashIDs>>
    /\ history
    /\ UNCHANGED loaded
    /\ UNCHANGED <<wvars, dvars, tvars, avars, fvars>>

\* Update, Browsing: "0"
KeyStatusAll ==
    /\ ~filtering
    /\ statusFilter' = FilterAll
    /\ UNCHANGED <<allIssues, readyIDs, hideClosed, filterText, sortField,
                   sortReverse>>
    /\ refilter
    /\ UNCHANGED <<cursor, offset, height, filtering, filterInput,
                   prevUpdatedAt, flashIDs>>
    /\ history
    /\ UNCHANGED loaded
    /\ UNCHANGED <<wvars, dvars, tvars, avars, fvars>>

\* Update, Browsing: "c"
KeyToggleClosed ==
    /\ ~filtering
    /\ hideClosed' = ~hideClosed
    /\ UNCHANGED <<allIssues, readyIDs, statusFilter, filterText, sortField,
                   sortReverse>>
    /\ refilter
    /\ UNCHANGED <<cursor, offset, height, filtering, filterInput,
                   prevUpdatedAt, flashIDs>>
    /\ history
    /\ UNCHANGED loaded
    /\ UNCHANGED <<wvars, dvars, tvars, avars, fvars>>

\* Update, Browsing: "/"
KeySlash ==
    /\ ~filtering
    /\ filtering' = TRUE
    /\ UNCHANGED <<allIssues, readyIDs, filtered, cursor, offset, height,
                   sortField, sortReverse, statusFilter, hideClosed,
                   filterInput, filterText, prevUpdatedAt, flashIDs>>
    /\ history
    /\ UNCHANGED loaded
    /\ UNCHANGED <<wvars, dvars, tvars, avars, fvars>>

\* updateFiltering: "enter"
KeyEnter ==
    /\ filtering
    /\ filterText' = filterInput
    /\ filtering' = FALSE
    /\ UNCHANGED <<allIssues, readyIDs, hideClosed, statusFilter, sortField,
                   sortReverse>>
    /\ refilter
    /\ UNCHANGED <<cursor, offset, height, filterInput, prevUpdatedAt,
                   flashIDs>>
    /\ history
    /\ UNCHANGED loaded
    /\ UNCHANGED <<wvars, dvars, tvars, avars, fvars>>

\* updateFiltering: "esc"
KeyEsc ==
    /\ filtering
    /\ filtering' = FALSE
    /\ filterInput' = filterText
    /\ UNCHANGED <<allIssues, readyIDs, filtered, cursor, offset, height,
                   sortField, sortReverse, statusFilter, hideClosed,
                   filterText, prevUpdatedAt, flashIDs>>
    /\ history
    /\ UNCHANGED loaded
    /\ UNCHANGED <<wvars, dvars, tvars, avars, fvars>>

\* updateFiltering, any other key: the text input handles it (a rune is
\* appended, backspace deletes the last rune), then the filter is applied live.
\* The text input is handled and the filter text taken from it, and the
\* rows are left as they were.
liveFilterNotApplied(value) ==
    /\ filterInput' = value
    /\ filterText' = value
    /\ UNCHANGED <<allIssues, readyIDs, hideClosed, statusFilter, sortField,
                   sortReverse, filtered>>
    /\ UNCHANGED <<cursor, offset, height, filtering, prevUpdatedAt,
                   flashIDs>>
    /\ history
    /\ UNCHANGED loaded

liveFilter(value) ==
    /\ filterInput' = value
    /\ filterText' = value
    /\ UNCHANGED <<allIssues, readyIDs, hideClosed, statusFilter, sortField,
                   sortReverse>>
    /\ refilter
    /\ UNCHANGED <<cursor, offset, height, filtering, prevUpdatedAt,
                   flashIDs>>
    /\ history
    /\ UNCHANGED loaded

KeyRune(c) ==
    /\ filtering
    /\ Len(filterInput) < MaxText
    /\ liveFilter(Append(filterInput, c))
    /\ UNCHANGED <<wvars, dvars, tvars, avars, fvars>>

KeyBackspace ==
    /\ filtering
    /\ liveFilter(IF filterInput = <<>> THEN filterInput
                  ELSE SubSeq(filterInput, 1, Len(filterInput) - 1))
    /\ UNCHANGED <<wvars, dvars, tvars, avars, fvars>>

ClearFlashesOne ==
    /\ \E id \in flashIDs : flashIDs' = flashIDs \ {id}
    /\ UNCHANGED <<allIssues, readyIDs, filtered, cursor, offset, height,
                   sortField, sortReverse, statusFilter, hideClosed,
                   filtering, filterInput, filterText, prevUpdatedAt,
                   textBefore, loaded>>
    /\ UNCHANGED <<wvars, dvars, tvars, avars, fvars>>

\* ClearFlashes
ClearFlashes ==
    /\ flashIDs # {}
    /\ flashIDs' = {}
    /\ UNCHANGED <<allIssues, readyIDs, filtered, cursor, offset, height,
                   sortField, sortReverse, statusFilter, hideClosed,
                   filtering, filterInput, filterText, prevUpdatedAt>>
    /\ history
    /\ UNCHANGED loaded
    /\ UNCHANGED <<wvars, dvars, tvars, avars, fvars>>

\* ---- the list view's specification ---------------------------------------

\* The issues bd can return to the list view: issue "a" is open, or closed
\* by a later update; issue "b" is pinned and in progress.
LoadIssuesA ==
    {mkIssue(strA, <<65>>, strEpic, <<>>, "open", FALSE, 1, 1, 1),
     mkIssue(strA, <<65>>, strEpic, <<>>, "closed", FALSE, 1, 1, 2)}

LoadIssuesB ==
    {mkIssue(strB, <<66>>, strChore, <<<<120>>>>, "in_progress", TRUE, 1, 1, 1)}

LoadSnapshots ==
    {<<>>} \cup {<<x>> : x \in LoadIssuesA \cup LoadIssuesB}
    \cup (LoadIssuesA \X LoadIssuesB)

\* bd ready returns the unblocked open issues: here all the open ones.
RECURSIVE openOf(_, _)
openOf(issues, i) ==
    IF i > Len(issues) THEN <<>>
    ELSE (IF issues[i].Status = "open" THEN <<issues[i]>> ELSE <<>>)
         \o openOf(issues, i + 1)

ListInit ==
    /\ NewListView /\ newDBWatcher /\ firstChangeOver /\ present = DbFiles
    /\ NoDetailView /\ NoTable /\ NoApp /\ NoCall

ListNext ==
    \/ \E issues \in LoadSnapshots : SetData(issues, openOf(issues, 1))
    \/ \E key \in {"j", "k", "g", "G", "ctrl+d", "ctrl+u"} : KeyCursor(key)
    \/ KeySortCycle
    \/ KeySortReverse
    \/ \E f \in FilterOpen..FilterPinned : KeyStatus(f)
    \/ KeyStatusAll
    \/ KeyToggleClosed
    \/ KeySlash
    \/ KeyEnter
    \/ KeyEsc
    \/ \E c \in TypeKeys : KeyRune(c)
    \/ KeyBackspace
    \/ ClearFlashes

ListSpec == ListInit /\ [][ListNext]_vars

\* The controller starts a fixed-duration timer whenever a reload triggers
\* flashes, and clears the flashes when it fires: while there are flashes a
\* clear is pending, and it is eventually dispatched.
ListFairSpec == ListSpec /\ WF_vars(ClearFlashes)

\* ---- the sort, over richer snapshots -------------------------------------

\* The issues of a sort snapshot: pinned or not, any priority, created at any
\* clock reading; update time, status and type vary with those.
sortIssue(id, pinned, priority, created) ==
    mkIssue(id, <<>>, IF created = 1 THEN strEpic ELSE strChore, <<>>,
            CASE priority = 0 -> "in_progress"
              [] priority = 1 -> "open"
              [] priority = 2 -> "closed"
              [] OTHER -> "blocked",
            pinned, priority, created, created + (priority % 2))

SortIDs == {<<strA, strB, strC>>, <<strC, strB, strA>>}

SortAttrs == BOOLEAN \X (0..MaxPriority) \X Stamps

SortSnapshots ==
    {[i \in 1..3 |-> sortIssue(ids[i], at[i][1], at[i][2], at[i][3])] :
         ids \in SortIDs, at \in [1..3 -> SortAttrs]}

\* The list view after its first load.
SortInit ==
    /\ newDBWatcher /\ firstChangeOver
    /\ present = DbFiles
    /\ allIssues \in SortSnapshots
    /\ readyIDs = {}
    /\ filtered = applyFilterAndSort(allIssues, TRUE, FilterAll, {}, <<>>,
                                     SortByPriority, FALSE)
    /\ cursor = 0
    /\ offset = 0
    /\ height = 0
    /\ sortField = SortByPriority
    /\ sortReverse = FALSE
    /\ statusFilter = FilterAll
    /\ hideClosed = TRUE
    /\ filtering = FALSE
    /\ filterInput = <<>>
    /\ filterText = <<>>
    /\ prevUpdatedAt = [id \in idsOf(allIssues) |->
                            lastWithID(allIssues, id).UpdatedAt]
    /\ flashIDs = {}
    /\ textBefore = <<>>
    /\ loaded = TRUE
    /\ NoDetailView
    /\ NoTable
    /\ NoApp
    /\ NoCall

SortNext ==
    \/ KeySortCycle
    \/ KeySortReverse
    \/ KeyToggleClosed

SortSpec == SortInit /\ [][SortNext]_vars

\* ------------------------------------------------------------------------
\* Properties of the list view
\* ------------------------------------------------------------------------

\* C6: whenever hideClosed is set and the status filter is not "closed", no
\* issue of the filtered set is closed.
ClosedHidden ==
    (hideClosed /\ statusFilter # FilterClosed)
        => \A i \in 1..Len(filtered) : filtered[i].Status # "closed"

\* C6, its case: a snapshot with a closed issue is loaded, closed issues are
\* hidden, and the filtered set shows the rest.
ClosedIssueHidden ==
    /\ hideClosed
    /\ statusFilter = FilterAll
    /\ \E i \in 1..Len(allIssues) : allIssues[i].Status = "closed"
    /\ Len(allIssues) = 2
    /\ Len(filtered) = 1

\* C7: in Browsing, the key of a status class that is not active makes it
\* the active one, the key of the active class resets the filter to "all",
\* and the filtered set follows; pressing a key twice from "all" gives "all".
StatusKeyToggles ==
    /\ [](\A f \in FilterOpen..FilterPinned :
              toggleStatusFilter(toggleStatusFilter(FilterAll, f), f) = FilterAll)
    /\ [][\A f \in FilterOpen..FilterPinned :
              KeyStatus(f) =>
                  /\ statusFilter # f => statusFilter' = f
                  /\ statusFilter = f => statusFilter' = FilterAll
                  /\ \A i \in 1..Len(filtered') :
                         matchesStatusFilter(statusFilter', readyIDs,
                                             filtered'[i])]_vars

\* C7, its case: the "open" key has made "open" the active class and the
\* filtered set holds the open issues only.
OpenFilterActive ==
    /\ ~filtering
    /\ statusFilter = FilterOpen
    /\ Len(filtered) = 1
    /\ Len(allIssues) = 2
    /\ filtered[1].Status = "open"

\* C8: Escape in Filtering returns to Browsing with the text filter, and the
\* filtered set, that were in force when Filtering was entered.
EscRestoresFilter ==
    [][KeyEsc =>
           /\ ~filtering'
           /\ filterText' = textBefore
           /\ filtered' = applyFilterAndSort(allIssues, hideClosed,
                                             statusFilter, readyIDs, textBefore,
                                             sortField, sortReverse)]_vars

\* Two issues tie under the comparison of a sort field.
tiedUnder(field, a, b) ==
    /\ a.Pinned = b.Pinned
    /\ CASE field = SortByPriority ->
                a.Priority = b.Priority /\ a.CreatedAt = b.CreatedAt
         [] field = SortByCreated -> a.CreatedAt = b.CreatedAt
         [] field = SortByUpdated -> a.UpdatedAt = b.UpdatedAt
         [] field = SortByStatus -> statusOrder(a.Status) = statusOrder(b.Status)
         [] field = SortByType -> a.IssueType = b.IssueType
         [] field = SortByID -> a.ID = b.ID
         [] OTHER -> TRUE

positionOf(issues, id) == CHOOSE i \in 1..Len(issues) : issues[i].ID = id

\* C9: the sort is stable for every field and direction: tied issues keep
\* their order from the loaded snapshot, and sorting the filtered set again
\* by the same field and direction leaves it as it is.
SortIsStable ==
    /\ \A i, j \in 1..Len(filtered) :
           (i < j /\ tiedUnder(sortField, filtered[i], filtered[j]))
               => positionOf(allIssues, filtered[i].ID)
                      < positionOf(allIssues, filtered[j].ID)
    /\ sliceStable(filtered, sortField, sortReverse) = filtered

\* C10: a pinned issue is placed before every unpinned one, for every sort
\* field and both values of the reverse flag.
PinnedAlwaysFirst ==
    \A i, j \in 1..Len(filtered) :
        (filtered[i].Pinned /\ ~filtered[j].Pinned) => i < j

\* The filtered set as the same snapshot, filters and sort field give it with
\* the reverse flag clear.
forwardOrder ==
    applyFilterAndSort(allIssues, hideClosed, statusFilter, readyIDs,
                       filterText, sortField, FALSE)

DefaultSortByPriority ==
    (sortField = SortByPriority /\ ~sortReverse) =>
        \A i, j \in 1..Len(filtered) :
            (i < j /\ filtered[i].Pinned = filtered[j].Pinned) =>
                /\ filtered[i].Priority <= filtered[j].Priority
                /\ filtered[i].Priority = filtered[j].Priority
                       => filtered[i].CreatedAt >= filtered[j].CreatedAt

\* C12, its case: three unpinned issues of priorities [2, 0, 1] are loaded
\* and shown in the order 0, 1, 2.
PrioritiesShownAscending ==
    /\ sortField = SortByPriority
    /\ ~sortReverse
    /\ Len(filtered) = 3
    /\ \A i \in 1..3 : ~allIssues[i].Pinned
    /\ <<allIssues[1].Priority, allIssues[2].Priority, allIssues[3].Priority>>
           = <<2, 0, 1>>
    /\ <<filtered[1].Priority, filtered[2].Priority, filtered[3].Priority>>
           = <<0, 1, 2>>

\* C13: on every reload, each incoming issue whose identifier is absent from
\* the recorded index, or whose UpdatedAt differs from the recorded one, is
\* in the flash set after the call; an issue recorded with the same UpdatedAt
\* is not added to it.
ReloadFlashesChanged ==
    [][\A issues \in LoadSnapshots :
           (loaded /\ SetData(issues, openOf(issues, 1))) =>
               \A k \in 1..Len(issues) :
                   LET id == issues[k].ID
                       changed == \/ id \notin DOMAIN prevUpdatedAt
                                  \/ issues[k].UpdatedAt # prevUpdatedAt[id]
                   IN  /\ changed => id \in flashIDs'
                       /\ (~changed /\ id \notin flashIDs)
                              => id \notin flashIDs']_vars

MaxHeight == 24

\* Terminal sizes the window takes.
Heights == {0, 8, MaxHeight}

Widths == {0, 40}

\* ---- text wrapping -----------------------------------------------------
\* A text is a sequence of paragraphs (the text split at newlines), a
\* paragraph a sequence of word widths (its words are one space apart); ""
\* is <<>>.  A wrapped line is represented by its display width.

sumWidths(words) ==
    LET RECURSIVE sum(_)
        sum(i) == IF i > Len(words) THEN 0 ELSE words[i] + sum(i + 1)
    IN  sum(1)

\* ui.StringWidth of the paragraph
StringWidth(words) ==
    IF words = <<>> THEN 0 ELSE sumWidths(words) + Len(words) - 1

wrapLine(words, maxWidth) ==
    LET RECURSIVE fill(_, _, _, _)
        fill(i, result, current, currentWidth) ==
            IF i > Len(words)
            THEN IF current THEN Append(result, currentWidth) ELSE result
            ELSE IF ~current
                 THEN fill(i + 1, result, TRUE, words[i])
                 ELSE IF currentWidth + 1 + words[i] <= maxWidth
                      THEN fill(i + 1, result, TRUE,
                                currentWidth + 1 + words[i])
                      ELSE fill(i + 1, Append(result, currentWidth), TRUE,
                                words[i])
    IN  IF StringWidth(words) <= maxWidth
        THEN <<StringWidth(words)>>
        ELSE fill(1, <<>>, FALSE, 0)

wrapText(text, maxWidth) ==
    LET mw == IF maxWidth <= 0 THEN 80 ELSE maxWidth
        paragraphs == IF text = <<>> THEN << <<>> >> ELSE text
        RECURSIVE wrap(_)
        wrap(i) ==
            IF i > Len(paragraphs) THEN <<>>
            ELSE (IF paragraphs[i] = <<>> THEN <<0>>
                  ELSE wrapLine(paragraphs[i], mw)) \o wrap(i + 1)
    IN  wrap(1)

\* ---- content -----------------------------------------------------------

\* An issue as the detail view reads it.  Fields is the number of metadata
\* values that are not empty, HasLabels whether there are labels.
mkDetailIssue(id, par, nf, lab, desc, des, acc, notes, deps, dpnd, com) ==
    [ID |-> id, Parent |-> par, Fields |-> nf, HasLabels |-> lab,
     Description |-> desc, Design |-> des, AcceptanceCriteria |-> acc,
     Notes |-> notes, Dependencies |-> deps, Dependents |-> dpnd,
     Comments |-> com]

dep(id, type) == [ID |-> id, DependencyType |-> type]

\* nonParentDeps: every dependency but the parent-child link to the parent
nonParentDepsKeepAll(iss) == iss.Dependencies

nonParentDeps(iss) ==
    IF iss = nilIssue THEN <<>>
    ELSE SelectSeq(iss.Dependencies,
                   LAMBDA d : ~(d.DependencyType = "parent-child"
                                /\ iss.Parent # nil /\ d.ID = iss.Parent))

repeat(tag, n) == [i \in 1..n |-> tag]

add(c, tag) == [c EXCEPT !.lines = Append(@, tag)]

addAll(c, tag, n) == [c EXCEPT !.lines = @ \o repeat(tag, n)]

addNav(c, id, tag) ==
    add([c EXCEPT !.navItems =
             Append(@, [lineIndex |-> Len(c.lines), issueID |-> id])], tag)

\* a blank line, the header line (recorded as the section's line), a divider
addSectionHeader(c, sk) ==
    LET b == add(c, "")
        h == [b EXCEPT !.sections = Append(@, sk),
                       !.sectionLines = Append(@, Len(b.lines))]
    IN  add(add(h, "header"), "divider")

textSection(c, sk, text, contentWidth, coll) ==
    IF text = <<>> THEN c
    ELSE LET h == addSectionHeader(c, sk)
         IN  IF coll[sk] THEN h
             ELSE addAll(h, "text", Len(wrapText(text, contentWidth)))

linkSection(c, sk, links, coll) ==
    IF links = <<>> THEN c
    ELSE LET h == addSectionHeader(c, sk)
             RECURSIVE each(_, _)
             each(i, acc) ==
                 IF i > Len(links) THEN acc
                 ELSE each(i + 1, addNav(acc, links[i].ID, "link"))
         IN  IF coll[sk] THEN h ELSE each(1, h)

commentSection(c, comments, contentWidth, coll) ==
    IF comments = <<>> THEN c
    ELSE LET h == addSectionHeader(c, sectionComments)
             RECURSIVE each(_, _)
             each(i, acc) ==
                 IF i > Len(comments) THEN acc
                 ELSE each(i + 1,
                           add(addAll(add(acc, "author"), "comment",
                                      Len(wrapText(comments[i],
                                                   contentWidth - 4))),
                               ""))
         IN  IF coll[sectionComments] THEN h ELSE each(1, h)

\* buildContent up to the cursor clamps: lines, navItems, sections,
\* sectionLines for an issue at a width under the collapsed flags
content(iss, w, coll) ==
    IF iss = nilIssue
    THEN [lines |-> <<"(no issue data)">>, navItems |-> <<>>,
          sections |-> <<>>, sectionLines |-> <<>>]
    ELSE LET contentWidth == Max2(20, w - 4)
             c0 == [lines |-> <<"title", "">> \o repeat("field", iss.Fields),
                    navItems |-> <<>>, sections |-> <<>>,
                    sectionLines |-> <<>>]
             c1 == IF iss.Parent # nil THEN addNav(c0, iss.Parent, "parent")
                   ELSE c0
             c2 == IF iss.HasLabels THEN add(c1, "field") ELSE c1
             c3 == textSection(c2, sectionDescription, iss.Description,
                               contentWidth, coll)
             c4 == textSection(c3, sectionDesign, iss.Design, contentWidth,
                               coll)
             c5 == textSection(c4, sectionAcceptance, iss.AcceptanceCriteria,
                               contentWidth, coll)
             c6 == textSection(c5, sectionNotes, iss.Notes, contentWidth,
                               coll)
             c7 == linkSection(c6, sectionDeps, nonParentDeps(iss), coll)
             c8 == linkSection(c7, sectionDependents, iss.Dependents, coll)
         IN  commentSection(c8, iss.Comments, contentWidth, coll)

clampNav(nc, n) == IF nc >= n THEN Max2(-1, n - 1) ELSE nc

clampSection(sc, n) ==
    IF n > 0 THEN (IF sc >= n THEN n - 1 ELSE sc) ELSE 0

\* buildContent: rebuild the lines and indexes, then clamp both cursors.
\* With no issue the function returns before the clamps.
buildContent(iss, w, coll, nc, sc) ==
    LET c == content(iss, w, coll)
    IN  /\ lines' = c.lines
        /\ navItems' = c.navItems
        /\ sections' = c.sections
        /\ sectionLines' = c.sectionLines
        /\ navCursor' = IF iss = nilIssue THEN nc
                        ELSE clampNav(nc, Len(c.navItems))
        /\ sectionCursor' = IF iss = nilIssue THEN sc
                            ELSE clampSection(sc, Len(c.sections))

\* ---- geometry ----------------------------------------------------------

\* ui.ContentHeight: the rows left once the header and the status bar are
\* drawn, at least one.
ContentHeight(total, headerLines, statusLines) ==
    Max2(1, total - headerLines - statusLines)

\* The header and the status bar are taken to render on one line each.
visibleLinesAt(h) == ContentHeight(h, 1, 1)

visibleLines == visibleLinesAt(detailHeight)

maxScrollOf(n, vis) == Max2(0, n - vis)

\* The shared body of scrollToNav and scrollToSection: bring a line into
\* the window [s, s + vis).
scrollToKeep(line, s, vis) == s

scrollTo(line, s, vis) ==
    IF line < s THEN line
    ELSE IF line >= s + vis THEN line - vis + 1
    ELSE s

scrollToNav(nc, items, s, vis) ==
    IF nc < 0 \/ nc >= Len(items) THEN s
    ELSE scrollTo(items[nc + 1].lineIndex, s, vis)

scrollToSection(sc, secLines, n, s, vis) ==
    IF sc < 0 \/ sc >= Len(secLines) THEN s
    ELSE Min2(scrollTo(secLines[sc + 1], s, vis), maxScrollOf(n, vis))

\* ---- operations --------------------------------------------------------

NewDetailView(iss) ==
    LET coll == [k \in 0..(sectionCount - 1) |-> FALSE]
        c == content(iss, 0, coll)
    IN  /\ detailIssue = iss
        /\ detailWidth = 0
        /\ detailHeight = 0
        /\ scroll = 0
        /\ collapsed = coll
        /\ lines = c.lines
        /\ navItems = c.navItems
        /\ sections = c.sections
        /\ sectionLines = c.sectionLines
        /\ navCursor = IF iss = nilIssue THEN -1
                       ELSE clampNav(-1, Len(c.navItems))
        /\ sectionCursor = IF iss = nilIssue THEN 0
                           ELSE clampSection(0, Len(c.sections))

others == <<wvars, lvars, tvars, avars, fvars>>

\* SetSize(w, h): what it does to the view
detailSetSize(w, h) ==
    /\ detailWidth' = w
    /\ detailHeight' = h
    /\ buildContent(detailIssue, w, collapsed, navCursor, sectionCursor)
    /\ UNCHANGED <<detailIssue, scroll, collapsed>>

DetailSetSize(w, h) ==
    /\ detailSetSize(w, h)
    /\ UNCHANGED others

\* A refresh that leaves the scroll position where it was.
UpdateIssueKeepScroll(iss) ==
    /\ detailIssue' = iss
    /\ buildContent(iss, detailWidth, collapsed, navCursor, sectionCursor)
    /\ scroll' = scroll
    /\ UNCHANGED <<detailWidth, detailHeight, collapsed>>
    /\ UNCHANGED others

UpdateIssue(iss) ==
    /\ detailIssue' = iss
    /\ buildContent(iss, detailWidth, collapsed, navCursor, sectionCursor)
    /\ scroll' = Min2(scroll, maxScrollOf(Len(lines'), visibleLines))
    /\ UNCHANGED <<detailWidth, detailHeight, collapsed>>
    /\ UNCHANGED others

scrollOnly ==
    UNCHANGED <<detailIssue, detailWidth, detailHeight, lines, navItems,
                navCursor, sections, sectionLines, sectionCursor, collapsed>>

DetailKeyDown ==
    /\ scroll' = IF scroll < Len(lines) - visibleLines THEN scroll + 1
                 ELSE scroll
    /\ scrollOnly
    /\ UNCHANGED others

DetailKeyUp ==
    /\ scroll' = IF scroll > 0 THEN scroll - 1 ELSE scroll
    /\ scrollOnly
    /\ UNCHANGED others

DetailKeyHome ==
    /\ scroll' = 0
    /\ scrollOnly
    /\ UNCHANGED others

DetailKeyEnd ==
    /\ scroll' = Max2(0, Len(lines) - visibleLines)
    /\ scrollOnly
    /\ UNCHANGED others

DetailKeyCtrlD ==
    LET page == visibleLines \div 2
    IN  /\ scroll' = Min2(scroll + page, Max2(0, Len(lines) - visibleLines))
        /\ scrollOnly
        /\ UNCHANGED others

DetailKeyCtrlU ==
    LET page == visibleLines \div 2
    IN  /\ scroll' = Max2(scroll - page, 0)
        /\ scrollOnly
        /\ UNCHANGED others

navOnly ==
    UNCHANGED <<detailIssue, detailWidth, detailHeight, lines, navItems,
                sections, sectionLines, sectionCursor, collapsed>>

nextNavNoWrap(nc, n) == IF nc + 1 >= n THEN n - 1 ELSE nc + 1

nextNav(nc, n) == IF nc + 1 >= n THEN 0 ELSE nc + 1

prevNav(nc, n) == IF nc - 1 < 0 THEN n - 1 ELSE nc - 1

KeyTab ==
    /\ IF Len(navItems) > 0
       THEN /\ navCursor' = nextNav(navCursor, Len(navItems))
            /\ scroll' = scrollToNav(navCursor', navItems, scroll,
                                     visibleLines)
       ELSE UNCHANGED <<navCursor, scroll>>
    /\ navOnly
    /\ UNCHANGED others

KeyShiftTab ==
    /\ IF Len(navItems) > 0
       THEN /\ navCursor' = prevNav(navCursor, Len(navItems))
            /\ scroll' = scrollToNav(navCursor', navItems, scroll,
                                     visibleLines)
       ELSE UNCHANGED <<navCursor, scroll>>
    /\ navOnly
    /\ UNCHANGED others

toggleEvery(coll, sk) == [k \in DOMAIN coll |-> ~coll[k]]

toggle(coll, sk) == [coll EXCEPT ![sk] = ~@]

\* x: toggleSection
KeyX ==
    /\ IF Len(sections) = 0
       THEN UNCHANGED dvars
       ELSE LET sc == IF sectionCursor < 0 \/ sectionCursor >= Len(sections)
                      THEN 0 ELSE sectionCursor
                sk == sections[sc + 1]
            IN  /\ collapsed' = toggle(collapsed, sk)
                /\ buildContent(detailIssue, detailWidth, collapsed',
                                navCursor, sc)
                /\ scroll' = scrollToSection(sectionCursor', sectionLines',
                                             Len(lines'), scroll,
                                             visibleLines)
                /\ UNCHANGED <<detailIssue, detailWidth, detailHeight>>
    /\ UNCHANGED others

\* ] and [: moveSectionCursor(1) and moveSectionCursor(-1)
moveSectionCursor(delta) ==
    /\ IF Len(sections) = 0
       THEN UNCHANGED <<sectionCursor, scroll>>
       ELSE LET moved == sectionCursor + delta
                over == IF moved >= Len(sections) THEN 0 ELSE moved
                sc == IF over < 0 THEN Len(sections) - 1 ELSE over
            IN  /\ sectionCursor' = sc
                /\ scroll' = scrollToSection(sc, sectionLines, Len(lines),
                                             scroll, visibleLines)
    /\ UNCHANGED <<detailIssue, detailWidth, detailHeight, lines, navItems,
                   navCursor, sections, sectionLines, collapsed>>
    /\ UNCHANGED others

KeySectionNext == moveSectionCursor(1)

KeySectionPrev == moveSectionCursor(-1)

\* ---- data --------------------------------------------------------------

\* One paragraph of three words: one line at width 36, two at width 20.
textShort == << <<8, 8, 8>> >>

\* Three paragraphs, the second empty.
textLong == << <<8, 8, 8>>, <<>>, <<12, 12>> >>

\* A child of p that also hangs under q and is blocked by r; s follows it.
IssueChild ==
    mkDetailIssue("a", "p", 4, FALSE, textLong, <<>>, <<>>, <<>>,
                  <<dep("p", "parent-child"), dep("q", "parent-child"),
                    dep("r", "blocks")>>,
                  <<[ID |-> "s"]>>, <<>>)

\* The same issue after a refresh: no parent field, labels and one comment.
IssueOrphan ==
    mkDetailIssue("a", nil, 4, TRUE, <<>>, <<>>, <<>>, <<>>,
                  <<dep("p", "parent-child")>>, <<>>, <<textShort>>)

\* Nothing optional: no section and nothing to navigate to.
IssueBare ==
    mkDetailIssue("a", nil, 4, FALSE, <<>>, <<>>, <<>>, <<>>, <<>>, <<>>,
                  <<>>)

DetailIssues == {IssueChild, IssueOrphan, IssueBare}

DetailInit ==
    /\ \E iss \in DetailIssues : NewDetailView(iss)
    /\ NewListView
    /\ newDBWatcher /\ firstChangeOver
    /\ present = DbFiles
    /\ NoTable
    /\ NoApp
    /\ NoCall

DetailNext ==
    \/ \E w \in Widths, h \in Heights : DetailSetSize(w, h)
    \/ \E iss \in DetailIssues : UpdateIssue(iss)
    \/ DetailKeyDown
    \/ DetailKeyUp
    \/ DetailKeyHome
    \/ DetailKeyEnd
    \/ DetailKeyCtrlD
    \/ DetailKeyCtrlU
    \/ KeyTab
    \/ KeyShiftTab
    \/ KeyX
    \/ KeySectionNext
    \/ KeySectionPrev

DetailSpec == DetailInit /\ [][DetailNext]_vars

\* ---- properties of the detail view --------------------------------------

\* C15: after every detail-view operation the scroll position lies in
\* [0, max(0, totalLines - visibleLines)].
ScrollInBounds ==
    0 <= scroll /\ scroll <= Max2(0, Len(lines) - visibleLines)

flagsChanged == {k \in DOMAIN collapsed : collapsed'[k] # collapsed[k]}

\* C16: a resize and a data refresh rebuild the content and leave every
\* collapsed flag as it was; a flag changes only in a step of the toggle key,
\* and then exactly one flag changes.
CollapsedSurvivesRebuilds ==
    [][/\ (\E w \in Widths, h \in Heights : DetailSetSize(w, h))
            => (collapsed' = collapsed
                /\ lines' = content(detailIssue, detailWidth', collapsed).lines)
       /\ (\E iss \in DetailIssues : UpdateIssue(iss))
            => (collapsed' = collapsed
                /\ lines' = content(detailIssue', detailWidth, collapsed).lines)
       /\ (collapsed' # collapsed)
            => (KeyX /\ Cardinality(flagsChanged) = 1)]_vars

\* The description was collapsed, and a refresh then brought an issue that
\* has no description section: the flag is still set.
CollapsedKeptAcrossRefresh ==
    /\ collapsed[sectionDescription]
    /\ detailIssue = IssueOrphan
    /\ \A i \in 1..Len(sections) : sections[i] # sectionDescription
    /\ detailHeight = MaxHeight

\* C17: with n >= 1 navigable items Tab moves the cross-reference cursor from
\* i to (i+1) mod n and Shift+Tab from i to (i-1) mod n, from no selection Tab
\* selects the first item and Shift+Tab the last; with n = 0 both keys leave
\* it unselected; and the cursor is always in [-1, n-1].
NavCursorWraps ==
    /\ [](navCursor \in (-1)..(Len(navItems) - 1))
    /\ [][LET n == Len(navItems)
          IN  /\ KeyTab => navCursor' = IF n = 0 THEN -1
                                        ELSE (navCursor + 1) % n
              /\ KeyShiftTab => navCursor' = IF n = 0 THEN -1
                                             ELSE IF navCursor = -1 THEN n - 1
                                             ELSE (navCursor - 1) % n]_vars

\* The cursor is on the last of four items and Tab takes it to the first.
NavCursorOnLast ==
    /\ Len(navItems) = 4
    /\ navCursor = 3
    /\ nextNav(navCursor, Len(navItems)) = 0
    /\ navItems[4].lineIndex \in scroll..(scroll + visibleLines - 1)

\* C18: x toggles the collapsed flag of exactly the section under the section
\* cursor, rebuilds the content, and leaves the header line of that section
\* inside the window [scroll, scroll + visibleLines).
ToggleKeepsHeaderVisible ==
    [][(KeyX /\ Len(sections) > 0) =>
          LET sk == sections[sectionCursor + 1]
              header == sectionLines'[sectionCursor' + 1]
          IN  /\ flagsChanged = {sk}
              /\ sections'[sectionCursor' + 1] = sk
              /\ lines' = content(detailIssue, detailWidth, collapsed').lines
              /\ lines'[header + 1] = "header"
              /\ scroll' <= header
              /\ header < scroll' + visibleLines]_vars

\* The last section is collapsed in a one-line window: its header is the
\* line at the top, and the view is scrolled to the end.
ToggledHeaderAtTop ==
    /\ Len(sections) = 3
    /\ sectionCursor = 2
    /\ collapsed[sections[3]]
    /\ visibleLines = 1
    /\ scroll = sectionLines[3]

isParentLink(iss, d) ==
    d.DependencyType = "parent-child" /\ iss.Parent # nil /\ d.ID = iss.Parent

issueIDs(items) == [i \in 1..Len(items) |-> items[i].issueID]

IDs(links) == [i \in 1..Len(links) |-> links[i].ID]

MaxWidth == 20

\* Most columns in a table.
MaxColumns == 3

SizeFixed == 0

SizeFit == 1

SizeFlex == 2

\* A column: HeaderWidth is the display width of its header text.
AlignLeft == 0

AlignRight == 1

\* A Column literal that leaves Align out: the zero value is AlignLeft.
Column(size, headerWidth, fixed, min, max) ==
    [Size |-> size, HeaderWidth |-> headerWidth, Fixed |-> fixed,
     Min |-> min, Max |-> max, Width |-> 0, Align |-> AlignLeft]

\* Clamp to [Min, Max] where they are set.
clamp(col, w) ==
    LET lo == IF col.Min > 0 /\ w < col.Min THEN col.Min ELSE w
    IN  IF col.Max > 0 /\ lo > col.Max THEN col.Max ELSE lo

\* Pass 1: the width of a Fixed or Fit column (index i counts from 0).
fixedOrFit(col, i, dataWidths) ==
    IF col.Size = SizeFixed THEN col.Fixed
    ELSE LET w == IF i < Len(dataWidths) THEN dataWidths[i + 1] ELSE 0
         IN  clamp(col, Max2(w, col.HeaderWidth))

\* Number of Flex columns among the first i columns
flexBefore(cols, i) ==
    Cardinality({j \in 1..i : cols[j].Size = SizeFlex})

\* usedWidth: the widths pass 1 assigned
usedWidth(cols) ==
    LET RECURSIVE sum(_)
        sum(i) == IF i > Len(cols) THEN 0
                  ELSE (IF cols[i].Size = SizeFlex THEN 0 ELSE cols[i].Width)
                       + sum(i + 1)
    IN  sum(1)

\* What is left when the gaps are not taken off.
remainingBeforeGaps(cols, gap, tw) == tw - usedWidth(cols)

\* What is left for the Flex columns
remainingFor(cols, gap, tw) == tw - usedWidth(cols) - (Len(cols) - 1) * gap

shareEven(cols, i, remaining) == remaining \div flexBefore(cols, Len(cols))

\* The share pass 2 hands the Flex column at position i before clamping: an
\* even split, the first (remaining mod flexCount) columns one more.
share(cols, i, remaining) ==
    LET flexCount == flexBefore(cols, Len(cols))
        perFlex == remaining \div flexCount
        extra == remaining % flexCount
    IN  perFlex + (IF flexBefore(cols, i - 1) < extra THEN 1 ELSE 0)

resolved(cols, gap, tw, dataWidths) ==
    LET pass1 == [i \in 1..Len(cols) |->
                     IF cols[i].Size = SizeFlex THEN cols[i]
                     ELSE [cols[i] EXCEPT
                              !.Width = fixedOrFit(cols[i], i - 1,
                                                   dataWidths)]]
        flexCount == flexBefore(cols, Len(cols))
        remaining == remainingFor(pass1, gap, tw)
    IN  IF Len(cols) = 0 THEN cols
        ELSE [i \in 1..Len(cols) |->
                 IF pass1[i].Size # SizeFlex THEN pass1[i]
                 ELSE IF remaining > 0
                      THEN [pass1[i] EXCEPT
                               !.Width = clamp(pass1[i],
                                               share(pass1, i, remaining))]
                      ELSE [pass1[i] EXCEPT !.Width = pass1[i].Min]]

Resolve(tw, dataWidths) ==
    /\ Columns' = resolved(Columns, Gap, tw, dataWidths)
    /\ totalWidth' = tw
    /\ row' = NoRow
    /\ UNCHANGED Gap
    /\ UNCHANGED <<wvars, lvars, dvars, avars, fvars>>

\* ---- data --------------------------------------------------------------

ColumnKinds ==
    { Column(SizeFixed, 2, 3, 0, 0),
      Column(SizeFit, 2, 0, 2, 6),
      Column(SizeFlex, 2, 0, 0, 0),
      Column(SizeFlex, 2, 0, 4, 0),
      Column(SizeFlex, 2, 0, 0, 5) }

Layouts ==
    UNION {[1..n -> ColumnKinds] : n \in 1..MaxColumns}

DataWidths == {<<>>, <<4, 9, 4>>}

NewTable ==
    /\ Columns \in Layouts
    /\ Gap = 1
    /\ totalWidth = -1
    /\ row = NoRow

TableInit ==
    /\ NewTable
    /\ NewListView
    /\ newDBWatcher /\ firstChangeOver
    /\ present = DbFiles
    /\ NoDetailView
    /\ NoApp
    /\ NoCall

TableNext == \E tw \in 0..MaxWidth, dw \in DataWidths : Resolve(tw, dw)

TableSpec == TableInit /\ [][TableNext]_vars

\* ---- properties ----------------------------------------------------------

sumOfWidths ==
    LET RECURSIVE sum(_)
        sum(i) == IF i > Len(Columns) THEN 0 ELSE Columns[i].Width + sum(i + 1)
    IN  sum(1)

\* The least a column can take: Fixed for a Fixed column, Min otherwise.
sumOfMins ==
    LET RECURSIVE sum(_)
        sum(i) == IF i > Len(Columns) THEN 0
                  ELSE (IF Columns[i].Size = SizeFixed THEN Columns[i].Fixed
                        ELSE Columns[i].Min) + sum(i + 1)
    IN  sum(1)

totalGaps == (Len(Columns) - 1) * Gap

flexColumns == {i \in 1..Len(Columns) : Columns[i].Size = SizeFlex}

\* The Flex column at i got its full share: neither limit cut it.
unclamped(i) ==
    LET remaining == remainingFor(Columns, Gap, totalWidth)
    IN  /\ remaining > 0
        /\ Columns[i].Width = share(Columns, i, remaining)
        /\ clamp(Columns[i], share(Columns, i, remaining))
              = share(Columns, i, remaining)

\* C20, as stated: once the table is resolved for a width of at least the
\* minimum widths plus the gaps and at least one Flex column is not clamped,
\* the widths plus the gaps add up to that width.
WidthsFillWithOneUnclamped ==
    (/\ totalWidth >= sumOfMins + totalGaps
     /\ \E i \in flexColumns : unclamped(i))
        => sumOfWidths + totalGaps = totalWidth

\* C20, amended: once the table is resolved for a width that leaves room for
\* the Flex columns and no Flex column is clamped, the widths plus the gaps
\* add up to that width.
WidthsFillWhenNoneClamped ==
    (/\ totalWidth >= 0
     /\ flexColumns # {}
     /\ \A i \in flexColumns : unclamped(i))
        => sumOfWidths + totalGaps = totalWidth

\* Two Flex columns share an odd remainder: the first takes the extra column.
RemainderGoesToFirst ==
    /\ Len(Columns) = 3
    /\ flexColumns = {2, 3}
    /\ \A i \in flexColumns : unclamped(i)
    /\ Columns[2].Width = Columns[3].Width + 1
    /\ sumOfWidths + totalGaps = totalWidth

\* ========================================================================
\* Table.RenderRow (internal/ui/table.go)
\* ========================================================================

\* A string is the sequence of its runes; a rune is written by its display
\* width class: a space, a narrow letter, a wide letter (two cells), a dot.
runeSpace == " "

runeNarrow == "a"

runeWide == "W"

runeDot == "."

runeWidth(r) == IF r = runeWide THEN 2 ELSE 1

\* ui.StringWidth of a cell text
RECURSIVE cellWidth(_)
cellWidth(str) ==
    IF str = <<>> THEN 0 ELSE runeWidth(Head(str)) + cellWidth(Tail(str))

spaces(n) == [i \in 1..n |-> runeSpace]

\* The longest prefix of str, rune by rune, that fits in w cells.
RECURSIVE fitPrefix(_, _)
fitPrefix(str, w) ==
    IF str = <<>> \/ runeWidth(Head(str)) > w THEN <<>>
    ELSE <<Head(str)>> \o fitPrefix(Tail(str), w - runeWidth(Head(str)))

\* The tail counted as one column, whatever its width.
runewidthTruncateNarrowTail(str, w, tail) ==
    IF cellWidth(str) <= w THEN str
    ELSE fitPrefix(str, w - 1) \o tail

\* runewidth.Truncate(s, w, tail): the tail is appended to what fits in the
\* width less the tail's, also when that is nothing.
runewidthTruncate(str, w, tail) ==
    IF cellWidth(str) <= w THEN str
    ELSE fitPrefix(str, w - cellWidth(tail)) \o tail

\* Truncate
Truncate(str, maxLen) ==
    IF maxLen <= 0 THEN <<>>
    ELSE IF cellWidth(str) <= maxLen THEN str
    ELSE runewidthTruncate(str, maxLen, <<runeDot, runeDot, runeDot>>)

\* PadStr
PadStr(str, width) ==
    IF cellWidth(str) >= width THEN str
    ELSE str \o spaces(width - cellWidth(str))

\* PadLeft
PadLeft(str, width) ==
    IF cellWidth(str) >= width THEN str
    ELSE spaces(width - cellWidth(str)) \o str

\* The index of the first column of the trailing right-aligned run, counted
\* from 0 as the code does.
RECURSIVE rightStartFrom(_, _)
rightStartFrom(cols, i) ==
    IF i >= 0 /\ cols[i + 1].Align = AlignRight
    THEN rightStartFrom(cols, i - 1)
    ELSE i + 1

cellAt(cells, i) == IF i < Len(cells) THEN cells[i + 1] ELSE <<>>

\* The two groups are rendered from column i to column last, with the gap
\* between neighbours; each returns the text and the width the code counts.
RECURSIVE leftGroup(_, _, _, _, _)
leftGroup(cols, gap, cells, i, last) ==
    IF i > last THEN [text |-> <<>>, width |-> 0]
    ELSE LET col == cols[i + 1]
             rest == leftGroup(cols, gap, cells, i + 1, last)
             sep == IF i > 0 THEN gap ELSE 0
         IN  [text |-> spaces(sep)
                       \o PadStr(Truncate(cellAt(cells, i), col.Width),
                                 col.Width)
                       \o rest.text,
              width |-> sep + col.Width + rest.width]

RECURSIVE rightGroup(_, _, _, _, _)
rightGroup(cols, gap, cells, i, first) ==
    IF i >= Len(cols) THEN [text |-> <<>>, width |-> 0]
    ELSE LET col == cols[i + 1]
             rest == rightGroup(cols, gap, cells, i + 1, first)
             sep == IF i > first THEN gap ELSE 0
         IN  [text |-> spaces(sep)
                       \o PadLeft(Truncate(cellAt(cells, i), col.Width),
                                  col.Width)
                       \o rest.text,
              width |-> sep + col.Width + rest.width]

totalResolved(cols, gap) ==
    LET RECURSIVE sum(_)
        sum(i) == IF i = 0 THEN 0 ELSE cols[i].Width + sum(i - 1)
    IN  sum(Len(cols)) + (Len(cols) - 1) * gap

\* The spaces between the two groups: what is left of the resolved width,
\* at least one gap.
betweenGroups(cols, gap, leftWidth, rightWidth) ==
    LET g == totalResolved(cols, gap) - leftWidth - rightWidth
    IN  IF g < gap THEN gap ELSE g

renderRow(cols, gap, cells) ==
    IF Len(cols) = 0 THEN <<>>
    ELSE LET rightStart == rightStartFrom(cols, Len(cols) - 1)
             left == leftGroup(cols, gap, cells, 0, rightStart - 1)
             right == rightGroup(cols, gap, cells, rightStart, rightStart)
         IN  IF rightStart = Len(cols) THEN left.text
             ELSE left.text
                  \o spaces(betweenGroups(cols, gap, left.width,
                                          right.width))
                  \o right.text

\* RenderRow(cells, nil)
RenderRow(cells) ==
    /\ totalWidth # -1
    /\ row' = renderRow(Columns, Gap, cells)
    /\ UNCHANGED <<Columns, Gap, totalWidth>>
    /\ UNCHANGED <<wvars, lvars, dvars, avars, fvars>>

\* ---- data --------------------------------------------------------------

rightAligned(col) == [col EXCEPT !.Align = AlignRight]

\* A status column, a title that takes what is left, and on the right an
\* age and a two-cell marker.
RenderKinds ==
    { Column(SizeFixed, 2, 4, 0, 0),
      Column(SizeFlex, 2, 0, 0, 0),
      rightAligned(Column(SizeFixed, 2, 4, 0, 0)),
      rightAligned(Column(SizeFixed, 1, 2, 0, 0)) }

RenderLayouts ==
    UNION {[1..n -> RenderKinds] : n \in 1..MaxColumns}

\* Two narrow letters; a text of six cells with a wide letter in it.
CellTexts ==
    { <<runeNarrow, runeNarrow>>,
      <<runeNarrow, runeWide, runeNarrow, runeNarrow, runeNarrow>> }

RenderWidths == {8, 14, MaxWidth}

RenderInit ==
    /\ Columns \in RenderLayouts
    /\ Gap = 1
    /\ totalWidth = -1
    /\ row = NoRow
    /\ NewListView
    /\ newDBWatcher /\ firstChangeOver
    /\ present = DbFiles
    /\ NoDetailView
    /\ NoApp
    /\ NoCall

RenderNext ==
    \/ \E tw \in RenderWidths : Resolve(tw, <<>>)
    \/ \E cells \in {<<>>} \cup [1..Len(Columns) -> CellTexts] :
           RenderRow(cells)

RenderSpec == RenderInit /\ [][RenderNext]_vars

\* ---- properties ----------------------------------------------------------

lastIsRight == Len(Columns) > 0 /\ Columns[Len(Columns)].Align = AlignRight

\* C21: when the last columns of a resolved table are right-aligned, the
\* rendered row is exactly as wide as the resolved columns and their gaps,
\* also when every column is right-aligned.
RowFillsResolvedWidth ==
    (row # NoRow /\ lastIsRight)
        => cellWidth(row) = totalResolved(Columns, Gap)

\* The row is one gap too wide when there is no left-aligned column.
RowOfRightColumnsOnly ==
    /\ row # NoRow
    /\ \A i \in 1..Len(Columns) : Columns[i].Align = AlignRight
    /\ Len(Columns) = 2
    /\ cellWidth(row) = totalResolved(Columns, Gap) + Gap

\* ========================================================================
\* App (internal/app/app.go)
\* ========================================================================

\* The commands in flight at one time.
MaxPending == 2

\* The detail views under the active one.
MaxStack == 2

\* ---- the detail view as a value ------------------------------------------

\* What a.detail points to; the entries of a.detailStack are such values.
viewOf ==
    [issue |-> detailIssue, width |-> detailWidth, height |-> detailHeight,
     scroll |-> scroll, lines |-> lines, navItems |-> navItems,
     navCursor |-> navCursor, sections |-> sections,
     sectionLines |-> sectionLines, sectionCursor |-> sectionCursor,
     collapsed |-> collapsed]

installScrolledToTop(v) ==
    /\ detailIssue' = v.issue
    /\ detailWidth' = v.width
    /\ detailHeight' = v.height
    /\ scroll' = 0
    /\ lines' = v.lines
    /\ navItems' = v.navItems
    /\ navCursor' = v.navCursor
    /\ sections' = v.sections
    /\ sectionLines' = v.sectionLines
    /\ sectionCursor' = v.sectionCursor
    /\ collapsed' = v.collapsed

\* a.detail = v
install(v) ==
    /\ detailIssue' = v.issue
    /\ detailWidth' = v.width
    /\ detailHeight' = v.height
    /\ scroll' = v.scroll
    /\ lines' = v.lines
    /\ navItems' = v.navItems
    /\ navCursor' = v.navCursor
    /\ sections' = v.sections
    /\ sectionLines' = v.sectionLines
    /\ sectionCursor' = v.sectionCursor
    /\ collapsed' = v.collapsed

\* a.detail = nil
noView ==
    [issue |-> nilIssue, width |-> 0, height |-> 0, scroll |-> 0,
     lines |-> <<"(no issue data)">>, navItems |-> <<>>, navCursor |-> -1,
     sections |-> <<>>, sectionLines |-> <<>>, sectionCursor |-> 0,
     collapsed |-> [k \in 0..(sectionCount - 1) |-> FALSE]]

\* views.NewDetailView(issue) followed by SetSize(w, h)
sizedView(iss, w, h) ==
    LET coll == [k \in 0..(sectionCount - 1) |-> FALSE]
        c == content(iss, w, coll)
    IN  [issue |-> iss, width |-> w, height |-> h, scroll |-> 0,
         lines |-> c.lines, navItems |-> c.navItems,
         navCursor |-> clampNav(-1, Len(c.navItems)),
         sections |-> c.sections, sectionLines |-> c.sectionLines,
         sectionCursor |-> clampSection(0, Len(c.sections)),
         collapsed |-> coll]

\* ---- the client ----------------------------------------------------------

\* What bd list can return: issue a, as created or after an update.
AppSnapshots ==
    { <<mkIssue(strA, <<65>>, strEpic, <<>>, "open", FALSE, 1, 1, 1)>>,
      <<mkIssue(strA, <<65>>, strEpic, <<>>, "open", FALSE, 1, 1, 2)>> }

\* The identifiers bd show is asked for.
AppIDs == {"a", "p"}

\* The list model writes an identifier as its runes, the detail model as a
\* string.
idString(id) == IF id = strA THEN "a" ELSE IF id = strB THEN "b" ELSE "c"

\* bd show: issue a has a description and a parent p, the others nothing.
Show(id) ==
    IF id = "a"
    THEN mkDetailIssue("a", "p", 4, FALSE, textLong, <<>>, <<>>, <<>>,
                       <<dep("p", "parent-child")>>, <<>>, <<>>)
    ELSE mkDetailIssue(id, nil, 4, FALSE, <<>>, <<>>, <<>>, <<>>, <<>>,
                       <<>>, <<>>)

loadDataAllOrNothing(listOK, issues, readyOK, statsOK) ==
    IF ~(listOK /\ readyOK /\ statsOK)
    THEN [issues |-> <<>>, readyIssues |-> <<>>, stats |-> nil,
          err |-> "bd list failed"]
    ELSE [issues |-> issues, readyIssues |-> openOf(issues, 1),
          stats |-> "stats", err |-> nil]

\* loadData's message: ListAll failing fails the load, Ready and Stats
\* failing leave their value at zero.
loadData(listOK, issues, readyOK, statsOK) ==
    IF ~listOK
    THEN [issues |-> <<>>, readyIssues |-> <<>>, stats |-> nil,
          err |-> "bd list failed"]
    ELSE [issues |-> issues,
          readyIssues |-> IF readyOK THEN openOf(issues, 1) ELSE <<>>,
          stats |-> IF statsOK THEN "stats" ELSE nil,
          err |-> nil]

DataMsgs ==
    {loadData(ok[1], issues, ok[2], ok[3]) :
        ok \in BOOLEAN \X BOOLEAN \X BOOLEAN, issues \in AppSnapshots}

\* loadDetail's message
loadDetail(id, showOK) ==
    IF showOK THEN [issue |-> Show(id), err |-> nil]
    ELSE [issue |-> nilIssue, err |-> "bd show failed"]

\* ---- commands ------------------------------------------------------------

\* A command in flight is known by what it loads. The mode the app was in
\* when a detail load was asked for is kept with it; the code's message
\* carries the issue and the error only.
dataCmd(quiet) ==
    [kind |-> "data", id |-> nil, quiet |-> quiet, drill |-> FALSE,
     from |-> ViewList]

detailCmd(id, drill, from) ==
    [kind |-> "detail", id |-> id, quiet |-> FALSE, drill |-> drill,
     from |-> from]

navigateCmd(id) ==
    [kind |-> "navigate", id |-> id, quiet |-> FALSE, drill |-> FALSE,
     from |-> ViewDetail]

\* The handler returns the command.
send(cmd) ==
    /\ BagCardinality(pending) < MaxPending
    /\ pending' = pending (+) SetToBag({cmd})

\* The command's message is taken from the queue.
receive(cmd) ==
    /\ BagIn(cmd, pending)
    /\ pending' = pending (-) SetToBag({cmd})

\* ---- New, Init -----------------------------------------------------------

New ==
    /\ NewListView
    /\ listWidth = 0
    /\ stats = nil
    /\ helpWidth = 0
    /\ helpHeight = 0
    /\ NoDetailView
    /\ detailStack = <<>>
    /\ viewMode = ViewList
    /\ showHelp = FALSE
    /\ err = nil
    /\ loading = TRUE
    /\ appWidth = 0
    /\ appHeight = 0
    /\ quit = FALSE
    /\ pending = SetToBag({dataCmd(FALSE)})

\* ---- Update: messages ----------------------------------------------------

\* tea.WindowSizeMsg
Resize(w, h) ==
    /\ ~quit
    /\ appWidth' = w
    /\ appHeight' = h
    /\ setSize(h)
    /\ listWidth' = w
    /\ IF detailIssue # nilIssue THEN detailSetSize(w, h)
       ELSE UNCHANGED dvars
    /\ helpWidth' = w
    /\ helpHeight' = h
    /\ UNCHANGED <<viewMode, showHelp, err, loading, detailStack, stats,
                   pending, quit>>
    /\ UNCHANGED <<wvars, tvars, fvars>>

\* dataLoadedMsg
DataLoaded(msg) ==
    /\ ~quit
    /\ receive(dataCmd(FALSE))
    /\ loading' = FALSE
    /\ IF msg.err # nil
       THEN /\ err' = msg.err
            /\ UNCHANGED <<lvars, stats>>
       ELSE /\ err' = nil
            /\ setData(msg.issues, msg.readyIssues)
            /\ stats' = msg.stats
    /\ UNCHANGED <<viewMode, showHelp, detailStack, appWidth, appHeight,
                   listWidth, helpWidth, helpHeight, quit>>
    /\ UNCHANGED <<wvars, dvars, tvars, fvars>>

\* detailLoadedMsg
DetailLoaded(id, from, showOK) ==
    /\ ~quit
    /\ receive(detailCmd(id, FALSE, from))
    /\ loading' = FALSE
    /\ LET msg == loadDetail(id, showOK)
       IN  IF msg.err # nil
           THEN /\ err' = msg.err
                /\ UNCHANGED <<dvars, viewMode>>
           ELSE /\ err' = nil
                /\ install(sizedView(msg.issue, appWidth, appHeight))
                /\ viewMode' = ViewDetail
    /\ UNCHANGED <<showHelp, detailStack, appWidth, appHeight, listWidth,
                   helpWidth, helpHeight, stats, quit>>
    /\ UNCHANGED <<wvars, lvars, tvars, fvars>>

\* ---- Update: keys --------------------------------------------------------

closeHelpStopsLoading ==
    /\ showHelp' = FALSE
    /\ loading' = FALSE
    /\ UNCHANGED <<viewMode, err, detailStack, appWidth, appHeight,
                   listWidth, helpWidth, helpHeight, stats, pending, quit>>
    /\ UNCHANGED <<wvars, lvars, dvars, tvars, fvars>>

\* a.showHelp = false; return a, nil
closeHelp ==
    /\ showHelp' = FALSE
    /\ UNCHANGED <<viewMode, err, loading, detailStack, appWidth, appHeight,
                   listWidth, helpWidth, helpHeight, stats, pending, quit>>
    /\ UNCHANGED <<wvars, lvars, dvars, tvars, fvars>>

popDetailToList ==
    /\ install(noView)
    /\ viewMode' = ViewList
    /\ UNCHANGED detailStack

popDetail ==
    IF Len(detailStack) > 0
    THEN /\ install(detailStack[Len(detailStack)])
         /\ detailStack' = SubSeq(detailStack, 1, Len(detailStack) - 1)
         /\ UNCHANGED viewMode
    ELSE /\ install(noView)
         /\ viewMode' = ViewList
         /\ UNCHANGED detailStack

\* The key went to popDetail.
back ==
    /\ popDetail
    /\ UNCHANGED <<showHelp, err, loading, appWidth, appHeight, listWidth,
                   helpWidth, helpHeight, stats, pending, quit>>
    /\ UNCHANGED <<wvars, lvars, tvars, fvars>>

loadClearsError(cmd) ==
    /\ loading' = TRUE
    /\ err' = nil
    /\ send(cmd)
    /\ UNCHANGED <<viewMode, showHelp, detailStack, appWidth, appHeight,
                   listWidth, helpWidth, helpHeight, stats, quit>>
    /\ UNCHANGED <<wvars, lvars, dvars, tvars, fvars>>

\* The handler sets loading and returns a load command.
load(cmd) ==
    /\ loading' = TRUE
    /\ send(cmd)
    /\ UNCHANGED <<viewMode, showHelp, err, detailStack, appWidth,
                   appHeight, listWidth, helpWidth, helpHeight, stats, quit>>
    /\ UNCHANGED <<wvars, lvars, dvars, tvars, fvars>>

\* "ctrl+c"
AppKeyCtrlC ==
    /\ ~quit
    /\ quit' = TRUE
    /\ UNCHANGED <<viewMode, showHelp, err, loading, detailStack, appWidth,
                   appHeight, listWidth, helpWidth, helpHeight, stats,
                   pending>>
    /\ UNCHANGED <<wvars, lvars, dvars, tvars, fvars>>

\* "q"
AppKeyQ ==
    /\ ~quit
    /\ IF showHelp THEN closeHelp
       ELSE IF viewMode = ViewDetail THEN back
       ELSE IF filtering THEN KeyRune(113)
       ELSE /\ quit' = TRUE
            /\ UNCHANGED <<viewMode, showHelp, err, loading, detailStack,
                           appWidth, appHeight, listWidth, helpWidth,
                           helpHeight, stats, pending>>
            /\ UNCHANGED <<wvars, lvars, dvars, tvars, fvars>>

\* "?"
AppKeyHelp ==
    /\ ~quit
    /\ showHelp' = ~showHelp
    /\ UNCHANGED <<viewMode, err, loading, detailStack, appWidth, appHeight,
                   listWidth, helpWidth, helpHeight, stats, pending, quit>>
    /\ UNCHANGED <<wvars, lvars, dvars, tvars, fvars>>

\* "r" with an error shown
retry ==
    /\ err' = nil
    /\ loading' = TRUE
    /\ send(dataCmd(FALSE))
    /\ UNCHANGED <<viewMode, showHelp, detailStack, appWidth, appHeight,
                   listWidth, helpWidth, helpHeight, stats, quit>>
    /\ UNCHANGED <<wvars, lvars, dvars, tvars, fvars>>

\* "r"
AppKeyR ==
    /\ ~quit
    /\ IF err # nil THEN retry
       ELSE IF showHelp THEN closeHelp
       ELSE IF viewMode = ViewList
            THEN (IF ~filtering THEN load(dataCmd(FALSE))
                  ELSE KeyRune(114))
       ELSE IF detailIssue # nilIssue
            THEN load(detailCmd(detailIssue.ID, FALSE, ViewDetail))
       ELSE UNCHANGED vars

\* ListView.SelectedIssue
SelectedIssue ==
    IF Len(filtered) = 0 \/ cursor >= Len(filtered) THEN nilIssue
    ELSE filtered[cursor + 1]

\* DetailView.SelectedNavID
SelectedNavID ==
    IF navCursor < 0 \/ navCursor >= Len(navItems) THEN ""
    ELSE navItems[navCursor + 1].issueID

\* "enter"
AppKeyEnter ==
    /\ ~quit
    /\ IF showHelp THEN closeHelp
       ELSE IF viewMode = ViewList
            THEN (IF filtering THEN KeyEnter
                  ELSE IF SelectedIssue.ID # nil
                       THEN load(detailCmd(idString(SelectedIssue.ID), FALSE,
                                           ViewList))
                  ELSE UNCHANGED vars)
       ELSE IF SelectedNavID # ""
            THEN /\ send(navigateCmd(SelectedNavID))
                 /\ UNCHANGED <<viewMode, showHelp, err, loading,
                                detailStack, appWidth, appHeight, listWidth,
                                helpWidth, helpHeight, stats, quit>>
                 /\ UNCHANGED <<wvars, lvars, dvars, tvars, fvars>>
       ELSE UNCHANGED vars

\* "esc"
AppKeyEsc ==
    /\ ~quit
    /\ IF showHelp THEN closeHelp
       ELSE IF viewMode = ViewList
            THEN (IF filtering THEN KeyEsc ELSE UNCHANGED vars)
       ELSE back

\* The keys the views handle on their own.
ListKeys == {"j", "/"}

DetailKeys == {"tab", "x"}

runeOf(key) == IF key = "j" THEN 106 ELSE 47

\* Any other key: what is left of Update once help is closed
AppKey(key) ==
    /\ ~quit
    /\ IF showHelp THEN closeHelp
       ELSE IF viewMode = ViewList
            THEN /\ key \in ListKeys
                 /\ IF filtering THEN KeyRune(runeOf(key))
                    ELSE IF key = "j" THEN KeyCursor("j")
                    ELSE KeySlash
       ELSE /\ key \in DetailKeys
            /\ IF key = "tab" THEN KeyTab ELSE KeyX

\* ---- the handlers that the controller of this revision lacks -------------

\* fileChangedMsg: the change watcher's notification starts a quiet load.
FileChanged ==
    /\ ~quit
    /\ send(dataCmd(TRUE))
    /\ UNCHANGED <<viewMode, showHelp, err, loading, detailStack, appWidth,
                   appHeight, listWidth, helpWidth, helpHeight, stats, quit>>
    /\ UNCHANGED <<wvars, lvars, dvars, tvars, fvars>>

QuietLoadedLikeExplicit(msg) ==
    /\ ~quit
    /\ receive(dataCmd(TRUE))
    /\ loading' = FALSE
    /\ IF msg.err # nil
       THEN /\ err' = msg.err
            /\ UNCHANGED <<lvars, stats>>
       ELSE /\ err' = nil
            /\ setData(msg.issues, msg.readyIssues)
            /\ stats' = msg.stats
    /\ UNCHANGED <<viewMode, showHelp, detailStack, appWidth, appHeight,
                   listWidth, helpWidth, helpHeight, quit>>
    /\ UNCHANGED <<wvars, dvars, tvars, fvars>>

\* The result of a quiet load: a failure is discarded, a success replaces
\* the list's data.
QuietLoaded(msg) ==
    /\ ~quit
    /\ receive(dataCmd(TRUE))
    /\ IF msg.err # nil
       THEN UNCHANGED <<lvars, stats>>
       ELSE /\ setData(msg.issues, msg.readyIssues)
            /\ stats' = msg.stats
    /\ UNCHANGED <<viewMode, showHelp, err, loading, detailStack, appWidth,
                   appHeight, listWidth, helpWidth, helpHeight, quit>>
    /\ UNCHANGED <<wvars, dvars, tvars, fvars>>

\* NavigateToIssueMsg: an explicit load of the linked issue, as a drill-down.
NavigateToIssue(id) ==
    /\ ~quit
    /\ BagIn(navigateCmd(id), pending)
    /\ pending' = (pending (-) SetToBag({navigateCmd(id)}))
                   (+) SetToBag({detailCmd(id, TRUE, ViewDetail)})
    /\ loading' = TRUE
    /\ UNCHANGED <<viewMode, showHelp, err, detailStack, appWidth,
                   appHeight, listWidth, helpWidth, helpHeight, stats, quit>>
    /\ UNCHANGED <<wvars, lvars, dvars, tvars, fvars>>

\* The result of a drill-down load: as detailLoadedMsg, and the view that
\* was active goes on the stack.
DrillLoaded(id, showOK) ==
    /\ ~quit
    /\ receive(detailCmd(id, TRUE, ViewDetail))
    /\ Len(detailStack) < MaxStack
    /\ loading' = FALSE
    /\ LET msg == loadDetail(id, showOK)
       IN  IF msg.err # nil
           THEN /\ err' = msg.err
                /\ UNCHANGED <<dvars, viewMode, detailStack>>
           ELSE /\ err' = nil
                /\ detailStack' = IF detailIssue # nilIssue
                                  THEN Append(detailStack, viewOf)
                                  ELSE detailStack
                /\ install(sizedView(msg.issue, appWidth, appHeight))
                /\ viewMode' = ViewDetail
    /\ UNCHANGED <<showHelp, appWidth, appHeight, listWidth, helpWidth,
                   helpHeight, stats, quit>>
    /\ UNCHANGED <<wvars, lvars, tvars, fvars>>

\* ---- the application's specification -------------------------------------

AppSizes == {<<40, 8>>, <<40, MaxHeight>>}

AppInit ==
    /\ New
    /\ newDBWatcher /\ firstChangeOver
    /\ present = DbFiles
    /\ NoTable
    /\ NoCall

\* Loads, errors and the help overlay. No cross-reference is selected, so
\* the detail view is always opened from the list, and the text filter is
\* not entered.
AppNext ==
    \/ \E size \in AppSizes : Resize(size[1], size[2])
    \/ \E msg \in DataMsgs : DataLoaded(msg)
    \/ \E from \in {ViewList, ViewDetail}, ok \in BOOLEAN :
           DetailLoaded("a", from, ok)
    \/ AppKeyCtrlC
    \/ AppKeyQ
    \/ AppKeyHelp
    \/ AppKeyR
    \/ AppKeyEnter
    \/ AppKeyEsc
    \/ \E key \in {"j", "x"} : AppKey(key)
    \/ FileChanged
    \/ \E msg \in DataMsgs : QuietLoaded(msg)

AppSpec == AppInit /\ [][AppNext]_vars

NavSizes == {<<40, 8>>}

NavSnapshots ==
    {<<mkIssue(strA, <<65>>, strEpic, <<>>, "open", FALSE, 1, 1, 1)>>}

\* Drill-down: the client answers every call, and the keys are those that
\* open, leave and change a detail view.
NavNext ==
    \/ \E size \in NavSizes : Resize(size[1], size[2])
    \/ \E issues \in NavSnapshots :
           DataLoaded(loadData(TRUE, issues, TRUE, TRUE))
    \/ DetailLoaded("a", ViewList, TRUE)
    \/ AppKeyQ
    \/ AppKeyEnter
    \/ AppKeyEsc
    \/ \E key \in DetailKeys : AppKey(key)
    \/ \E id \in AppIDs : NavigateToIssue(id)
    \/ \E id \in AppIDs : DrillLoaded(id, TRUE)

NavSpec == AppInit /\ [][NavNext]_vars

\* ---- properties of the navigation stack ----------------------------------

top(stack) == stack[Len(stack)]

backKey == (AppKeyEsc \/ AppKeyQ) /\ viewMode = ViewDetail /\ ~showHelp

\* C22: Escape or q in a detail view makes the top of the stack the active
\* view and takes it off the stack, and with an empty stack drops the view
\* and goes back to the list; in detail mode there is an active view.
BackPopsOrLeaves ==
    /\ [](viewMode = ViewDetail => detailIssue # nilIssue)
    /\ [][backKey =>
            IF Len(detailStack) > 0
            THEN /\ viewOf' = top(detailStack)
                 /\ detailStack' = SubSeq(detailStack, 1,
                                          Len(detailStack) - 1)
                 /\ viewMode' = ViewDetail
            ELSE /\ viewOf' = noView
                 /\ detailStack' = <<>>
                 /\ viewMode' = ViewList]_vars

\* A view built before the terminal was sized is active again: it came
\* back from the stack.
PoppedViewActive ==
    /\ viewMode = ViewDetail
    /\ detailStack = <<>>
    /\ detailIssue.ID = "a"
    /\ detailWidth = 0
    /\ appWidth = 40

sized(v) == v.width = appWidth /\ v.height = appHeight

allButHelp ==
    <<lvars, dvars, viewMode, err, loading, detailStack, appWidth,
      appHeight, listWidth, helpWidth, helpHeight, stats, pending, quit>>

\* C24: with the help overlay shown, a key other than ctrl+c, q, ? and r
\* with an error closes the overlay and does nothing else: the mode, the
\* list and the detail view stay as they are and no command is returned.
HelpSwallowsKey ==
    [][(showHelp /\ (\/ AppKeyEnter
                     \/ AppKeyEsc
                     \/ AppKeyR /\ err = nil
                     \/ \E key \in ListKeys \cup DetailKeys : AppKey(key)))
          => ~showHelp' /\ UNCHANGED allButHelp]_vars

\* The overlay covers a detail view while a load is in flight.
HelpOverDetail ==
    /\ showHelp
    /\ viewMode = ViewDetail
    /\ Len(sections) > 0
    /\ err = nil
    /\ BagCardinality(pending) > 0

\* A load that was asked for by a key.
explicitLoads(bag) ==
    CopiesIn(dataCmd(FALSE), bag)
    + CopiesIn(detailCmd("a", FALSE, ViewList), bag)
    + CopiesIn(detailCmd("a", FALSE, ViewDetail), bag)

\* A key's load that completes without error.
loadSucceeds ==
    \/ \E msg \in DataMsgs : msg.err = nil /\ DataLoaded(msg)
    \/ \E from \in {ViewList, ViewDetail} : DetailLoaded("a", from, TRUE)

\* C25 as stated: a set error is cleared only by a data load that
\* completes without error.
ErrorClearedBySuccessOnly ==
    [][(err # nil /\ err' = nil)
          => \E msg \in DataMsgs : msg.err = nil /\ DataLoaded(msg)]_vars

\* C25: a set error stays set until the retry key is pressed or a load
\* asked for by a key completes without error; no other key, no resize and
\* no failed or quiet load clears it.
ErrorClearedByRetryOrSuccess ==
    [][(err # nil /\ err' = nil) => (AppKeyR \/ loadSucceeds)]_vars

\* The error of a failed load is shown and the retry's load is not out.
ErrorShown ==
    /\ err # nil
    /\ ~loading
    /\ explicitLoads(pending) = 0

NoLoadWhileLoading ==
    [][loading => explicitLoads(pending') <= explicitLoads(pending)]_vars

\* C28: the result of a detail load that was asked for in a detail view
\* and arrives when the app is back in the list changes neither the mode
\* nor the detail view.
StaleDetailIgnored ==
    [][(viewMode = ViewList
           /\ \E ok \in BOOLEAN : DetailLoaded("a", ViewDetail, ok))
          => UNCHANGED <<viewMode, dvars>>]_vars

\* C30: a load whose ListAll succeeds ends without error and installs the
\* issues, with an empty ready set if Ready failed and no stats if Stats
\* failed; a load whose ListAll fails sets the error and installs nothing.
SecondaryFailureDegrades ==
    [][\A ok \in BOOLEAN \X BOOLEAN \X BOOLEAN, issues \in AppSnapshots :
          DataLoaded(loadData(ok[1], issues, ok[2], ok[3]))
              => IF ok[1]
                 THEN /\ err' = nil
                      /\ allIssues' = issues
                      /\ readyIDs' = IF ok[2] THEN idsOf(issues) ELSE {}
                      /\ stats' = IF ok[3] THEN "stats" ELSE nil
                 ELSE /\ err' # nil
                      /\ UNCHANGED <<allIssues, readyIDs, stats>>]_vars

\* The list shows the issues of a load whose Ready and Stats both failed.
LoadedWithoutSecondary ==
    /\ Len(allIssues) > 0
    /\ readyIDs = {}
    /\ stats = nil
    /\ err = nil
    /\ ~loading

\* ========================================================================
\* Text functions called on their own: Truncate and wrapText
\* ========================================================================

MaxRunes == 4
MaxCallWidth == 6

notCall == <<wvars, lvars, dvars, tvars, avars>>

\* No call is outstanding; the rest of the program is at rest.
CallInit ==
    /\ NoCall
    /\ NewListView
    /\ newDBWatcher /\ firstChangeOver
    /\ present = DbFiles
    /\ NoDetailView
    /\ NoTable
    /\ NoApp

\* The caller drops what a call returned.
CallDone ==
    /\ Len(returned) = 1
    /\ callText' = <<>>
    /\ callWidth' = 0
    /\ returned' = <<>>
    /\ UNCHANGED notCall

\* ---- Truncate ------------------------------------------------------------

RECURSIVE runeStrings(_)
\* Every text of n letters, narrow, wide or a dot.
runeStrings(n) ==
    IF n = 0 THEN {<<>>}
    ELSE {<<r>> \o str : r \in {runeNarrow, runeWide, runeDot}, str \in runeStrings(n - 1)}

TruncateTexts == UNION {runeStrings(n) : n \in 0..MaxRunes}

\* A call of Truncate(s, maxLen).
CallTruncate(str, maxLen) ==
    /\ returned = <<>>
    /\ callText' = str
    /\ callWidth' = maxLen
    /\ returned' = <<Truncate(str, maxLen)>>
    /\ UNCHANGED notCall

TruncateNext ==
    \/ \E str \in TruncateTexts, maxLen \in -1..MaxCallWidth :
           CallTruncate(str, maxLen)
    \/ CallDone

TruncateSpec == CallInit /\ [][TruncateNext]_vars

\* ---- properties ----------------------------------------------------------

dots == <<runeDot, runeDot, runeDot>>

\* C31: truncating what Truncate returned to the same width changes
\* nothing, also for a width of zero or less and for a width below the
\* three columns of the ellipsis.
TruncateIdempotent ==
    Len(returned) = 1
        => Truncate(returned[1], callWidth) = returned[1]

\* A text cut to a width the ellipsis does not fit in: the ellipsis alone,
\* wider than the width asked for.
CutBelowEllipsis ==
    /\ Len(returned) = 1
    /\ returned[1] = dots
    /\ callWidth \in 1..2
    /\ cellWidth(callText) > callWidth
    /\ callText # dots

\* ---- wrapText, rune by rune ----------------------------------------------

runeNewline == "\n"

\* The index of the first rune r of str, 0 if there is none.
indexRune(str, r) ==
    IF \E i \in 1..Len(str) : str[i] = r
    THEN CHOOSE i \in 1..Len(str) : str[i] = r /\ \A j \in 1..(i - 1) : str[j] # r
    ELSE 0

RECURSIVE stringsSplit(_)
\* strings.Split(text, "\n"): the pieces between the newlines, empty ones
\* included; a text without a newline is one piece.
stringsSplit(text) ==
    LET i == indexRune(text, runeNewline)
    IN  IF i = 0 THEN <<text>>
        ELSE <<SubSeq(text, 1, i - 1)>> \o stringsSplit(SubSeq(text, i + 1, Len(text)))

RECURSIVE stringsFields(_)
\* strings.Fields(line): the runs of runes that are not spaces.
stringsFields(line) ==
    IF line = <<>> THEN <<>>
    ELSE IF Head(line) = runeSpace THEN stringsFields(Tail(line))
    ELSE LET i == indexRune(line, runeSpace)
         IN  IF i = 0 THEN <<line>>
             ELSE <<SubSeq(line, 1, i - 1)>> \o stringsFields(SubSeq(line, i, Len(line)))

\* The loop of wrapLine over the words: a word joins the current line while
\* the line, a space and the word fit in maxWidth, else starts the next.
wrapWords(words, maxWidth) ==
    LET RECURSIVE fill(_, _, _)
        fill(i, result, current) ==
            IF i > Len(words)
            THEN IF current # <<>> THEN Append(result, current) ELSE result
            ELSE IF current = <<>>
                 THEN fill(i + 1, result, words[i])
                 ELSE IF cellWidth(current) + 1 + cellWidth(words[i]) <= maxWidth
                      THEN fill(i + 1, result, current \o <<runeSpace>> \o words[i])
                      ELSE fill(i + 1, Append(result, current), words[i])
    IN  fill(1, <<>>, <<>>)

\* wrapLine on the runes of a paragraph: the paragraph itself if it fits,
\* else its words packed line by line.
wrapLineRunes(line, maxWidth) ==
    IF cellWidth(line) <= maxWidth THEN <<line>>
    ELSE wrapWords(stringsFields(line), maxWidth)

\* wrapText on the runes of a text.
wrapTextRunes(text, maxWidth) ==
    LET mw == IF maxWidth <= 0 THEN 80 ELSE maxWidth
        paragraphs == stringsSplit(text)
        RECURSIVE wrap(_)
        wrap(i) ==
            IF i > Len(paragraphs) THEN <<>>
            ELSE (IF paragraphs[i] = <<>> THEN << <<>> >>
                  ELSE wrapLineRunes(paragraphs[i], mw)) \o wrap(i + 1)
    IN  wrap(1)

RECURSIVE wrapStrings(_)
\* Every text of n runes: narrow and wide letters, spaces and newlines.
wrapStrings(n) ==
    IF n = 0 THEN {<<>>}
    ELSE {<<r>> \o str : r \in {runeNarrow, runeWide, runeSpace, runeNewline}, str \in wrapStrings(n - 1)}

\* "a b c d e"
textABCDE == <<"a", runeSpace, "b", runeSpace, "c", runeSpace, "d", runeSpace, "e">>

WrapTexts == UNION {wrapStrings(n) : n \in 0..MaxRunes} \cup {textABCDE}

\* A call of wrapText(text, maxWidth).  The callers pass max(20, width-4)
\* or four less, so maxWidth is positive.
CallWrapText(text, maxWidth) ==
    /\ returned = <<>>
    /\ callText' = text
    /\ callWidth' = maxWidth
    /\ returned' = <<wrapTextRunes(text, maxWidth)>>
    /\ UNCHANGED notCall

WrapNext ==
    \/ \E text \in WrapTexts, maxWidth \in 1..MaxCallWidth :
           CallWrapText(text, maxWidth)
    \/ CallDone

WrapSpec == CallInit /\ [][WrapNext]_vars

\* ---- properties ----------------------------------------------------------

RECURSIVE wordsOf(_)
\* The words of some lines, in order.
wordsOf(out) ==
    IF out = <<>> THEN <<>>
    ELSE stringsFields(Head(out)) \o wordsOf(Tail(out))

\* The lines are a paragraph wrapped to maxWidth: the paragraph itself if it
\* fits; else its words in order, each line within maxWidth unless it is a
\* single word, and each line but the last followed by a word that would
\* not have fitted on it.
wrapsParagraph(paragraph, out, maxWidth) ==
    IF cellWidth(paragraph) <= maxWidth THEN out = <<paragraph>>
    ELSE /\ wordsOf(out) = stringsFields(paragraph)
         /\ \A i \in 1..Len(out) :
                \/ cellWidth(out[i]) <= maxWidth
                \/ Len(stringsFields(out[i])) = 1
         /\ \A i \in 1..(Len(out) - 1) :
                /\ stringsFields(out[i + 1]) # <<>>
                /\ cellWidth(out[i]) + 1 + cellWidth(Head(stringsFields(out[i + 1]))) > maxWidth

RECURSIVE wrapsText(_, _, _)
\* The lines are the paragraphs wrapped one after the other, each paragraph
\* on at least one line of its own.
wrapsText(paragraphs, out, maxWidth) ==
    IF paragraphs = <<>> THEN out = <<>>
    ELSE \E k \in 1..Len(out) :
             /\ wrapsParagraph(Head(paragraphs), SubSeq(out, 1, k), maxWidth)
             /\ wrapsText(Tail(paragraphs), SubSeq(out, k + 1, Len(out)), maxWidth)

blank(line) == \A i \in 1..Len(line) : line[i] = runeSpace

\* C32: what wrapText returns keeps the line breaks of the text, each
\* paragraph on lines of its own, and a paragraph wider than maxWidth is
\* packed greedily: the words of its lines in order are its words, a line
\* is wider than maxWidth only if it is a single word, and a line ends only
\* where the next word would not fit; "a b c d e" at width 5 gives "a b c"
\* and "d e".
WrapPacksGreedily ==
    Len(returned) = 1 =>
        /\ wrapsText(stringsSplit(callText), returned[1], callWidth)
        /\ (callText = textABCDE /\ callWidth = 5)
               => returned[1] = << <<"a", runeSpace, "b", runeSpace, "c">>, <<"d", runeSpace, "e">> >>

\* A paragraph of nothing but spaces, wider than maxWidth, after a letter:
\* it gets no line, and the text of two paragraphs comes back on one line.
BlankParagraphDropped ==
    /\ Len(returned) = 1
    /\ Len(stringsSplit(callText)) = 2
    /\ ~blank(stringsSplit(callText)[1])
    /\ blank(stringsSplit(callText)[2])
    /\ cellWidth(stringsSplit(callText)[2]) > callWidth
    /\ Len(returned[1]) = 1

\* ========================================================================
\* The watcher, from its start to the first change of the data files
\* ========================================================================

FirstChangeInit ==
    /\ newDBWatcher
    /\ firstChangeAhead
    /\ NewListView
    /\ NoDetailView
    /\ NoTable
    /\ NoApp
    /\ NoCall

FirstChangeSpec == FirstChangeInit /\ [][WatcherNext]_vars

\* ---- properties ----------------------------------------------------------

sentFor == {who \in {"fs", "poll"} : modNotify[who] = "sent"}

\* C33 as claimed: a single change of the data files gives the re-arming
\* consumer one fileChangedMsg, also when both loops have seen it.
SingleChangeSingleMessage ==
    (modCount = 1 /\ modNotify.fs # "none" /\ modNotify.poll # "none")
        => msgCount <= 1

\* C33 amended: for a single change each loop calls notify() at most once,
\* and the messages returned and the notification pending are as many as
\* the calls that were not dropped: one when the later call found the
\* earlier notification pending, two when the consumer had taken it.
SingleChangeCoalescedWhilePending ==
    modCount <= 1 =>
        /\ msgCount + events = Cardinality(sentFor)
        /\ msgCount <= 2

\* Both loops have notified for the one change, the later call was dropped
\* and the consumer has its one message.
BothSeenOneMessage ==
    /\ modCount = 1
    /\ \E who \in {"fs", "poll"} : modNotify[who] = "dropped"
    /\ Cardinality(sentFor) = 1
    /\ msgCount = 1
    /\ events = 0

\* Both loops have notified for the one change and the consumer has had
\* two messages.
BothSeenTwoMessages ==
    /\ modCount = 1
    /\ sentFor = {"fs", "poll"}
    /\ msgCount = 2

\* The event waiting on watcher.Events is a write or a create of beads.db
\* or beads.db-wal.
writeOrCreateOfDataFile ==
    /\ pushQ # <<>>
    /\ Head(pushQ).op \in {"Write", "Create"}
    /\ Head(pushQ).name \in {"beads.db", "beads.db-wal"}

\* The debounce timer is started, or set to fire later than it would have.
timerArmed == timerSet' /\ (~timerSet \/ timerLeft' > timerLeft)

\* C34: the debounce timer is armed or reset only by fsnotifyLoop receiving
\* a write or create event on beads.db or beads.db-wal, and such an event
\* leaves it set to the full delay; receiving any other event, or a watcher
\* error, changes neither the timer nor the notification channel.
OnlyDataFileWritesArmTimer ==
    /\ [][timerArmed => (FsEvent /\ writeOrCreateOfDataFile)]_vars
    /\ [][(FsEvent /\ writeOrCreateOfDataFile)
              => (timerSet' /\ timerLeft' = debounceDelay /\ events' = events)]_vars
    /\ [][((FsEvent /\ ~writeOrCreateOfDataFile) \/ FsError)
              => UNCHANGED <<timerSet, timerLeft, events>>]_vars

\* fsnotifyLoop is about to receive an event that does not qualify while
\* the debounce timer is running and a notification is pending.
OtherEventDuringDebounce ==
    /\ fsPc = "run"
    /\ ~watcherClosed
    /\ pushQ # <<>>
    /\ ~writeOrCreateOfDataFile
    /\ timerSet
    /\ timerLeft \in 1..(debounceDelay - 1)
    /\ events = 1

\* ========================================================================
\* The detail view: a refresh
\* ========================================================================

\* C35: UpdateIssue installs the issue, rebuilds the lines from it and
\* leaves the scroll position at the smaller of what it was and
\* max(0, new number of lines - visible lines).
UpdateIssueClampsScroll ==
    [][\A iss \in DetailIssues :
          UpdateIssue(iss)
              => /\ detailIssue' = iss
                 /\ lines' = content(iss, detailWidth, collapsed).lines
                 /\ scroll' = Min2(scroll, Max2(0, Len(lines') - visibleLinesAt(detailHeight')))]_vars

\* The view is scrolled further than the content of another issue allows:
\* a refresh that brings that issue lowers the scroll position.
ScrolledPastShorterIssue ==
    /\ scroll > 0
    /\ scroll <= Max2(0, Len(lines) - visibleLines)
    /\ \E iss \in DetailIssues :
           /\ iss # detailIssue
           /\ scroll > Max2(0, Len(content(iss, detailWidth, collapsed).lines) - visibleLines)

\* ========================================================================
\* Table.Resolve: no room for the Flex columns
\* ========================================================================

\* The width is less than or equal to what the Fixed and Fit columns and
\* the gaps take.
noRoomForFlex == totalWidth - usedWidth(Columns) - totalGaps <= 0

\* The least a column can take: Fixed for a Fixed column, Min otherwise.
minimumOf(col) == IF col.Size = SizeFixed THEN col.Fixed ELSE col.Min

\* C36: once the table is resolved for a width that leaves nothing for the
\* Flex columns, every Flex column has its configured minimum; and whatever
\* the width, no column is narrower than its minimum.
FlexAtMinimumWhenNoRoom ==
    totalWidth >= 0 =>
        /\ noRoomForFlex => \A i \in flexColumns : Columns[i].Width = Columns[i].Min
        /\ \A i \in 1..Len(Columns) : Columns[i].Width >= minimumOf(Columns[i])

\* A resolved table with a Flex column at its minimum of 4 and a row wider
\* than the width it was resolved for.
OverfullRowAtMinimum ==
    /\ totalWidth >= 0
    /\ noRoomForFlex
    /\ \E i \in flexColumns : Columns[i].Min > 0 /\ Columns[i].Width = Columns[i].Min
    /\ sumOfWidths + totalGaps > totalWidth

\* ========================================================================
\* The list view: the cursor and the rows shown
\* ========================================================================

\* C37: the cursor is on a row of the list, or at 0 when there is none:
\* 0 <= cursor <= max(0, len(filtered) - 1).
CursorOnARow ==
    0 <= cursor /\ cursor <= Max2(0, Len(filtered) - 1)

\* The cursor was on the last of two rows and a filter key has left one
\* row: the cursor is past it.
CursorPastLastRow ==
    /\ Len(allIssues) = 2
    /\ Len(filtered) = 1
    /\ cursor = 1

\* C38: the rows shown are the loaded issues filtered by hideClosed,
\* statusFilter, filterText and the ready ids and sorted by sortField and
\* sortReverse, as they are now.
FilteredIsCurrent ==
    filtered = applyFilterAndSort(allIssues, hideClosed, statusFilter, readyIDs, filterText, sortField, sortReverse)

\* Typing in the text filter has left some of the loaded issues.
TypedFilterNarrows ==
    /\ filtering
    /\ filterText # <<>>
    /\ filterText # textBefore
    /\ Len(filtered) > 0
    /\ Len(filtered) < Len(allIssues)

\* ========================================================================
\* The watcher after close()
\* ========================================================================

\* C39: once close() has returned, no step puts a notification in the
\* channel, also when the debounce timer or a poll tick is ready together
\* with the shutdown signal.
NoNotifyAfterClose ==
    [][closePc = "returned" => events' <= events]_vars

\* close() has returned and a loop that had not yet taken its done case
\* has just put a notification in the channel.
NotifiedAfterClose ==
    /\ closePc = "returned"
    /\ notifyLog[1] \in {"fs", "poll"}
    /\ notifyLog[2] = "sent"

\* ========================================================================
\* The watcher that may be absent
\* ========================================================================

\* newDBWatcher has returned nil (.beads/ does not exist or the watcher
\* could not be made): there is no subscription, no channel and no
\* goroutine.
nilDBWatcher ==
    /\ present \in {DbFiles \ {WalFile}, DbFiles}
    /\ mtime = [f \in DbFiles |-> IF f \in present THEN 1 ELSE zeroTime]
    /\ pushQ = <<>>
    /\ watcherClosed = TRUE
    /\ events = 0
    /\ done = FALSE
    /\ closePc = "idle"
    /\ fsPc = "none"
    /\ timerSet = FALSE
    /\ timerLeft = 0
    /\ pollPc = "none"
    /\ lastMod = zeroTime
    /\ tickReady = FALSE
    /\ waiting = FALSE
    /\ inbox = FALSE
    /\ notifyLog = <<"none", "none">>
    /\ sawEvt = FALSE
    /\ sinceEvt = debounceDelay
    /\ burstMany = FALSE
    /\ burstNotifies = 0
    /\ undelivered = "none"

\* waitForChange on a nil watcher returns nil: no command is started.
WaitForChangeNil ==
    /\ dwNil
    /\ waiting' = FALSE
    /\ noNotify
    /\ UNCHANGED <<present, mtime, pushQ, watcherClosed, done,
                   closePc, fsPc, timerSet, timerLeft, pollPc, lastMod,
                   tickReady, inbox, sawEvt, sinceEvt, burstNotifies, burstMany>>
    /\ UNCHANGED <<lvars, dvars, tvars, avars, fvars>>

\* close on a nil watcher returns at once.
CloseNil ==
    /\ dwNil
    /\ closePc = "idle"
    /\ closePc' = "returned"
    /\ noNotify
    /\ UNCHANGED <<present, mtime, pushQ, watcherClosed, done, fsPc,
                   timerSet, timerLeft, pollPc, lastMod, tickReady, waiting,
                   inbox, sawEvt, sinceEvt, burstNotifies, burstMany>>
    /\ UNCHANGED <<lvars, dvars, tvars, avars, fvars>>

OptionalWatcherInit ==
    /\ newDBWatcher \/ nilDBWatcher
    /\ firstChangeOver
    /\ NewListView
    /\ NoDetailView
    /\ NoTable
    /\ NoApp
    /\ NoCall

OptionalWatcherNext ==
    \/ WatcherNext
    \/ WaitForChangeNil
    \/ CloseNil

OptionalWatcherSpec == OptionalWatcherInit /\ [][OptionalWatcherNext]_vars

\* The goroutine of a waitForChange command whose done case is ready runs:
\* it takes that case unless it takes the other.
OptionalWatcherFairSpec == OptionalWatcherSpec /\ WF_vars(WaitDone)

\* ---- properties ----------------------------------------------------------

\* C40: once the shutdown signal is given, an outstanding waitForChange
\* returns; a waitForChange that returns hands over a fileChangedMsg only
\* by taking a pending notification, and otherwise returns no message on
\* the shutdown signal; with a nil watcher no waitForChange command is ever
\* outstanding and close() changes nothing of the watcher.
WaitReturnsAfterClose ==
    /\ (done /\ waiting) ~> ~waiting
    /\ [][(waiting /\ ~waiting')
             => IF inbox'
                THEN ~inbox /\ events > 0 /\ events' = events - 1
                ELSE done /\ events' = events]_vars
    /\ [](dwNil => ~waiting /\ ~inbox /\ ~done /\ events = 0)
    /\ [][(dwNil /\ closePc' # closePc)
             => UNCHANGED <<present, mtime, pushQ, watcherClosed, events, done, fsPc, timerSet, timerLeft, pollPc, lastMod, tickReady, waiting, inbox>>]_vars

\* The watcher is shut down and the waitForChange that was outstanding has
\* returned without a message.
WaitReturnedNoMessage ==
    /\ ~dwNil
    /\ closePc = "returned"
    /\ ~waiting
    /\ ~inbox
    /\ events = 0

\* close() has returned on a nil watcher.
ClosedNilWatcher ==
    /\ dwNil
    /\ closePc = "returned"

====
